---- MODULE Spec2Model ----
(***************************************************************************)
(* Wayland frontend of perceptia: Cache (surface records, regions, general *)
(* resource lists, one mutex), Facade (requests of the frontend thread),   *)
(* Gateway (events raised by coordinator threads).                         *)
(*                                                                         *)
(* Several specifications share the variables, each over the requests and  *)
(* events of one part of the frontend: SpecRegion, SpecInput,              *)
(* SpecResources, SpecKeys, SpecPointer, SpecEngine, SpecScene,            *)
(* SpecSurface, SpecConfigure, SpecFocus (whole Facade / Gateway calls,    *)
(* one after another, with the protocol events each of them sends), Spec   *)
(* and SpecTeardown (the frontend thread and the coordinator threads       *)
(* stepping through lock / critical section / unlock), SpecSelection,      *)
(* SpecShell, SpecClipboard, and SpecList (one NoiaList with its links).   *)
(***************************************************************************)
EXTENDS Integers, Sequences, FiniteSets, TLC

VARIABLES
    surfaces,             \* NoiaWaylandCache.surfaces: store sid -> surface record
    regions,              \* NoiaWaylandCache.regions: store rid -> region
    general_resource,     \* NoiaWaylandCache.general_resource[type]: list of resources
    mutex,                \* NoiaWaylandCache.mutex: the holder, or NoThread
    keyboard_focused_sid, \* NoiaWaylandState
    pointer_focused_sid,  \* NoiaWaylandState
    current_transfer,     \* NoiaWaylandState: a transfer, or NULL
    transfers,            \* the NoiaWaylandTransfers allocated and not freed
    live,                 \* the wl_resources that exist (libwayland)
    pc,                   \* per thread: the statement it is at
    loc,                  \* per thread: the locals of the call it is in
    fault,                \* "none", or the fault the process ran into
    coord,                \* what the Coordinator knows: its surfaces, its focuses, and
                          \* the offset and size calls the last request made on it
    sent,                 \* the protocol events sent by the last call, in order
    hist,                 \* history: what has been requested and sent so far
    engine,               \* NoiaWaylandEngine, its display and its thread
    chain                 \* a NoiaList with the memory of its links

vars == <<surfaces, regions, general_resource, mutex, keyboard_focused_sid,
          pointer_focused_sid, current_transfer, transfers, live, pc, loc, fault,
          coord, sent, hist, engine, chain>>

-----------------------------------------------------------------------------
(* Constants of the program *)

scInvalidItemId == 0
scInvalidSurfaceId == 0
NULL == 0

(* Bounds of the model *)

MaxRects == 2       \* rectangles added to one region
MaxInputRects == 1  \* wl_region.add requests on one region in SpecInput
MaxMimeTypes == 1   \* wl_data_source.offer requests on one data source
MaxOffers == 2      \* wl_data_source.offer requests on one source in SpecClipboard
MaxLinks == 4       \* links allocated for the list of SpecList

Rids == {1}                    \* region ids noia_store_generate_new_id may return
TransferIds == {1}             \* the NoiaWaylandTransfers of the wl_data_sources
MimeTypes == {"text/plain"}
ClipboardMimeTypes == {"text/plain", "text/html"}   \* offered in SpecClipboard
Coords == 0..2                 \* rectangle origins
Extents == 0..2                \* rectangle extents
Rects == [x : Coords, y : Coords, w : Extents, h : Extents]

-----------------------------------------------------------------------------
(* wayland-region.c *)

\* a region that starts as the unit square at (1, 1)
region_new_unit == [x |-> 1, y |-> 1, w |-> 1, h |-> 1]

\* calloc'ed NoiaWaylandRegion
noia_wayland_region_new == [x |-> 0, y |-> 0, w |-> 0, h |-> 0]

noia_wayland_region_is_valid(self) ==
    self.x > 0 /\ self.y > 0 /\ self.w > 0 /\ self.h > 0

\* The four adjustments of a valid region, in the order of the code; each reads
\* the copy `old` and updates `self`.
InflateStep1(self, old, x) ==
    IF old.x - x > 0 THEN [self EXCEPT !.w = self.w + (old.x - x), !.x = x] ELSE self

InflateStep2(self, old, y) ==
    IF old.y - y > 0 THEN [self EXCEPT !.w = self.w + (old.y - y), !.y = y] ELSE self

InflateStep3(self, old, x, width) ==
    IF old.x + old.w - x - width < 0
    THEN [self EXCEPT !.w = self.w - (old.x + old.w - x - width)] ELSE self

InflateStep4(self, old, y, height) ==
    IF old.y + old.h - y - height < 0
    THEN [self EXCEPT !.h = self.h - (old.y + old.h - y - height)] ELSE self

noia_wayland_region_inflate(self, x, y, width, height) ==
    IF noia_wayland_region_is_valid(self)
    THEN InflateStep4(InflateStep3(InflateStep2(InflateStep1(self, self, x),
                                                self, y),
                                   self, x, width),
                      self, y, height)
    ELSE [x |-> x, y |-> y, w |-> width, h |-> height]

-----------------------------------------------------------------------------
(* utils-store.c: a store is a function from the keys it holds to the items *)

\* tfind: whether an item is stored under key (the item is then store[key])
noia_store_find(store, key) == key \in DOMAIN store

\* tsearch: an item whose key is already in the tree is not inserted
noia_store_add(store, key, item) ==
    IF key \in DOMAIN store THEN store
    ELSE [k \in DOMAIN store \cup {key} |-> IF k = key THEN item ELSE store[k]]

\* tdelete of the item found under key
noia_store_delete(store, key) == [k \in DOMAIN store \ {key} |-> store[k]]

EmptyStore == [k \in {} |-> NULL]

\* noia_store_delete_with_id hands the NULL that noia_store_find returned for
\* a missing key to tdelete, which compares it with the root item of a store
\* that is not empty: noia_store_id_compare reads ((NoiaItem*) NULL)->id
StoreDeleteDerefsNull(store, key) ==
    ~noia_store_find(store, key) /\ DOMAIN store # {}

-----------------------------------------------------------------------------
(* Resource handles.  A wl_resource* is a number: its hundreds digit is the  *)
(* interface; the last digit of a wl_surface, wl_keyboard or wl_pointer is   *)
(* the client that owns it (wl_resource_get_client); the tens digit of a     *)
(* wl_surface or wl_callback is the sid it carries as user data.             *)

Clients == {1, 2}
Sids == {1, 2}                 \* surface ids the Coordinator mints
Seats == {1}                   \* wl_keyboard / wl_pointer objects one client binds
KeySeats == {1, 2}             \* wl_keyboard objects one client binds in SpecKeys
FrameIds == {1, 2}             \* wl_callback objects asked for one surface
BufferIds == {1}               \* wl_buffer objects

SurfaceRc(sid, c) == 100 + 10 * sid + c
KeyboardRc(c, n) == 200 + 10 * n + c
PointerRc(c, n) == 300 + 10 * n + c
FrameRc(sid, n) == 400 + 10 * sid + n
BufferRc(n) == 500 + n
SubsurfaceRc(sid) == 900 + 10 * sid + 1

SurfaceRcs == {SurfaceRc(s, c) : s \in Sids, c \in Clients}
KeyboardRcs == {KeyboardRc(c, n) : c \in Clients, n \in Seats}
SeatKeyboardRcs == {KeyboardRc(c, n) : c \in Clients, n \in KeySeats}
PointerRcs == {PointerRc(c, n) : c \in Clients, n \in Seats}
FrameRcs == {FrameRc(s, n) : s \in Sids, n \in FrameIds}
BufferRcs == {BufferRc(n) : n \in BufferIds}

wl_resource_get_client(rc) == rc % 10

\* wl_resource_get_user_data of a surface resource or a frame callback
wl_resource_get_user_data(rc) == (rc % 100) \div 10

SurfaceResourceTypes ==
    {"SURFACE", "BUFFER", "FRAME", "SHELL_SURFACE", "XDG_SHELL_SURFACE"}
GeneralResourceTypes == {"KEYBOARD", "POINTER", "DATA_DEVICE", "OTHER"}

-----------------------------------------------------------------------------
(* utils-list.c, on the lists the frontend keeps: a NoiaList is the sequence *)
(* of its data                                                               *)

RECURSIVE ListWithout(_, _)
\* noia_list_remove: the list without the first link whose data is `data`
ListWithout(list, data) ==
    IF list = <<>> THEN <<>>
    ELSE IF Head(list) = data THEN Tail(list)
    ELSE <<Head(list)>> \o ListWithout(Tail(list), data)

\* a removal that takes the head of the list whatever `data` is
list_remove_head(list, data) == IF list = <<>> THEN <<>> ELSE Tail(list)

noia_list_remove(list, data) == ListWithout(list, data)

\* noia_list_prepend
list_prepend(list, data) == <<data>> \o list

noia_list_append(list, data) == Append(list, data)

noia_list_first(list) == IF list = <<>> THEN NULL ELSE Head(list)

InList(list, data) == \E i \in 1..Len(list) : list[i] = data

-----------------------------------------------------------------------------
(* utils-chain.c, utils-list.c, on the links: a NoiaList with the memory of  *)
(* the NoiaLinks allocated for it.  link[l] is the content of the link at    *)
(* address l, made counts the links allocated (an address is not handed out  *)
(* twice), freed holds the addresses of the links that were freed; a pointer *)
(* to one of them dangles                                                    *)

LinkIds == 1..MaxLinks
ListData == {1, 2}

\* utils-chain.c:12-17 noia_link_new before its data is set; also what the
\* memset of noia_link_free leaves
NoLink == [data |-> NULL, prev |-> NULL, next |-> NULL]

\* utils-list.c:12-22, utils-chain.c noia_chain_initialize
noia_list_new ==
    [first |-> NULL, last |-> NULL, len |-> 0,
     link |-> [l \in LinkIds |-> NoLink], made |-> 0, freed |-> {}]

\* utils-chain.c:12-17: a new link at the next unused address
noia_link_new(self, data) ==
    [self EXCEPT !.made = @ + 1,
                 !.link[self.made + 1] = [NoLink EXCEPT !.data = data]]

\* utils-chain.c:21-28
noia_link_free(self, l) ==
    [self EXCEPT !.link[l] = NoLink, !.freed = @ \cup {l}]

RECURSIVE ChainLinks(_, _)
\* the links reached from l by following next
ChainLinks(self, l) ==
    IF l = NULL THEN <<>> ELSE <<l>> \o ChainLinks(self, self.link[l].next)

\* utils-chain.c:108-116
noia_chain_recalculate_length(self) == Len(ChainLinks(self, self.first))

\* utils-chain.c:120-135
noia_chain_add_first(self, l) ==
    [self EXCEPT !.first = l, !.last = l,
                 !.link[l].prev = NULL, !.link[l].next = NULL,
                 !.len = 1]

\* utils-chain.c:139-156
noia_chain_prejoin(self, l) ==
    IF self.len = 0 THEN noia_chain_add_first(self, l)
    ELSE [self EXCEPT !.link[l].next = self.first,
                      !.link[l].prev = NULL,
                      !.link[self.first].prev = l,
                      !.first = l,
                      !.len = @ + 1]

\* utils-chain.c:160-177
noia_chain_adjoin(self, l) ==
    IF self.len = 0 THEN noia_chain_add_first(self, l)
    ELSE [self EXCEPT !.link[l].next = NULL,
                      !.link[l].prev = self.last,
                      !.link[self.last].next = l,
                      !.last = l,
                      !.len = @ + 1]

\* utils-chain.c:251-276
noia_chain_disjoin(self, l) ==
    LET prev == self.link[l].prev
        next == self.link[l].next
        s1 == IF prev # NULL THEN [self EXCEPT !.link[prev].next = next]
              ELSE [self EXCEPT !.first = next]
        s2 == IF next # NULL THEN [s1 EXCEPT !.link[next].prev = prev]
              ELSE [s1 EXCEPT !.last = prev]
        s3 == [s2 EXCEPT !.link[l].prev = NULL, !.link[l].next = NULL]
    IN [s3 EXCEPT !.len = noia_chain_recalculate_length(s3)]

\* utils-chain.c:258-263: whether disjoin stores through the address of a
\* freed link
DisjoinTouchesFreedLink(self, l) == self.link[l].prev \in self.freed

\* utils-list.c:60-79
noia_list_pop(self) ==
    IF self.len = 0 THEN self
    ELSE LET next == self.link[self.first].next
             popped == [noia_link_free(self, self.first)
                          EXCEPT !.first = next, !.len = @ - 1]
         IN IF popped.len = 0 THEN [popped EXCEPT !.last = NULL] ELSE popped

RECURSIVE FindLink(_, _, _)
\* utils-list.c:110-116: the first link from l on whose data is `data`, or NULL
FindLink(self, l, data) ==
    IF l = NULL THEN NULL
    ELSE IF self.link[l].data = data THEN l
    ELSE FindLink(self, self.link[l].next, data)

-----------------------------------------------------------------------------
(* wayland-surface.c *)

\* frame_head_prev is the `prev` pointer of the first link of frame_resources:
\* "null", or "freed" after noia_list_pop freed the link before it and left the
\* pointer in place (utils-list.c:69-77).
noia_wayland_surface_new ==
    [resources |-> [t \in SurfaceResourceTypes |-> NULL],
     frame_resources |-> <<>>,
     frame_head_prev |-> "null"]

noia_wayland_surface_get_resource(self, type) == self.resources[type]

noia_wayland_surface_add_resource(self, type, rc) ==
    [self EXCEPT
       !.frame_resources = IF type = "FRAME" THEN noia_list_append(@, rc) ELSE @,
       !.frame_head_prev = IF type = "FRAME" /\ self.frame_resources = <<>>
                           THEN "null" ELSE @,
       !.resources[type] = rc]

\* noia_list_remove unlinks the first link through a prev pointer that
\* noia_list_pop left dangling
SurfaceRemoveTouchesFreedLink(self, type, rc) ==
    /\ type = "FRAME"
    /\ self.frame_resources # <<>>
    /\ Head(self.frame_resources) = rc
    /\ self.frame_head_prev = "freed"

noia_wayland_surface_remove_resource(self, type, rc) ==
    IF type = "FRAME"
    THEN LET frcs == noia_list_remove(self.frame_resources, rc)
         IN [self EXCEPT !.frame_resources = frcs,
                         !.frame_head_prev = IF frcs = <<>> THEN "null" ELSE @,
                         !.resources["FRAME"] = noia_list_first(frcs)]
    ELSE [self EXCEPT !.resources[type] = NULL]

-----------------------------------------------------------------------------
(* wayland-cache.c: the operations on the surface store `s`, on the region   *)
(* store `r` and on the general resource lists `g`                           *)

noia_wayland_cache_find_surface(s, sid) ==
    sid # scInvalidSurfaceId /\ noia_store_find(s, sid)

noia_wayland_cache_create_surface(s, sid) ==
    IF sid # scInvalidSurfaceId
    THEN noia_store_add(s, sid, noia_wayland_surface_new)
    ELSE s

\* noia_wayland_cache_remove_surface with the validity test inverted
remove_surface_keeps_record(s, sid) ==
    IF sid = scInvalidSurfaceId THEN noia_store_delete(s, sid) ELSE s

noia_wayland_cache_remove_surface(s, sid) ==
    IF sid # scInvalidSurfaceId THEN noia_store_delete(s, sid) ELSE s

noia_wayland_cache_add_surface_resource(s, sid, type, rc) ==
    IF noia_wayland_cache_find_surface(s, sid)
    THEN [s EXCEPT ![sid] = noia_wayland_surface_add_resource(@, type, rc)]
    ELSE s

noia_wayland_cache_remove_surface_resource(s, sid, type, rc) ==
    IF noia_wayland_cache_find_surface(s, sid)
    THEN [s EXCEPT ![sid] = noia_wayland_surface_remove_resource(@, type, rc)]
    ELSE s

noia_wayland_cache_add_general_resource(g, type, rc) ==
    [g EXCEPT ![type] = noia_list_append(@, rc)]

noia_wayland_cache_remove_general_resource(g, type, rc) ==
    [g EXCEPT ![type] = noia_list_remove(@, rc)]

noia_wayland_cache_get_resources(g, type) == g[type]

noia_wayland_cache_get_rc_for_sid(s, sid) ==
    IF noia_wayland_cache_find_surface(s, sid)
    THEN LET rc == noia_wayland_surface_get_resource(s[sid], "SURFACE")
         IN [rc |-> rc,
             cl |-> IF rc # NULL THEN wl_resource_get_client(rc) ELSE NULL]
    ELSE [rc |-> NULL, cl |-> NULL]

noia_wayland_cache_find_region(r, rid) ==
    rid # scInvalidItemId /\ noia_store_find(r, rid)

noia_wayland_cache_remove_region(r, rid) ==
    IF rid # scInvalidItemId THEN noia_store_delete(r, rid) ELSE r

-----------------------------------------------------------------------------
(* Protocol events.  `serial` is 0 for the literal 0 of the code and k for the *)
(* k-th value noia_wayland_engine_next_serial returns within the call.        *)

Ev(name, to, arg, serial) == [ev |-> name, to |-> to, arg |-> arg, serial |-> serial]

XdgIds == {1, 2}               \* xdg_surface objects asked for one surface
XdgSurfaceRc(sid, n) == 600 + (10 * sid) + n
XdgSurfaceRcs == {XdgSurfaceRc(sid, n) : sid \in Sids, n \in XdgIds}
XdgPopupRc(sid) == 900 + (10 * sid)
XdgPopupRcs == {XdgPopupRc(sid) : sid \in Sids}
DataDeviceRc(c) == 700 + c
DataDeviceRcs == {DataDeviceRc(c) : c \in Clients}
\* the wl_data_offer noia_wayland_data_offer_bind creates for a data device
DataOfferRc(device_rc) == 800 + (device_rc % 100)

RECURSIVE FocusEvents(_, _, _, _, _, _)
\* The FOR_EACH over keyboard (pointer) resources of the focus updates:
\* leave to the resources of the old client, enter to those of the new one.
FocusEvents(resources, old, new, leave, enter, serial) ==
    IF resources = <<>> THEN <<>>
    ELSE LET rc == Head(resources)
             client == wl_resource_get_client(rc)
         IN (IF client = old.cl THEN <<Ev(leave, rc, old.rc, serial)>> ELSE <<>>)
            \o (IF client = new.cl THEN <<Ev(enter, rc, new.rc, serial)>> ELSE <<>>)
            \o FocusEvents(Tail(resources), old, new, leave, enter, serial)

-----------------------------------------------------------------------------
(* wayland-gateway.c: what each critical section sends and writes, as a      *)
(* function of the cache (s, g) and of the state it reads                    *)

\* screen_refresh releasing the buffer whether or not a frame is outstanding
release_without_frame(s, sid) ==
    IF noia_wayland_cache_find_surface(s, sid)
    THEN noia_wayland_surface_get_resource(s[sid], "BUFFER")
    ELSE NULL

\* wayland-gateway.c:23-38: the buffer screen_refresh releases, or NULL
ScreenRefreshBuffer(s, sid) ==
    IF /\ noia_wayland_cache_find_surface(s, sid)
       /\ Len(s[sid].frame_resources) > 0
    THEN noia_wayland_surface_get_resource(s[sid], "BUFFER")
    ELSE NULL

ScreenRefreshEvents(s, sid) ==
    IF ScreenRefreshBuffer(s, sid) # NULL
    THEN <<Ev("buffer.release", ScreenRefreshBuffer(s, sid), NULL, 0)>>
    ELSE <<>>

ScreenRefreshSurfaces(s, sid) ==
    IF ScreenRefreshBuffer(s, sid) # NULL
    THEN [s EXCEPT ![sid] = noia_wayland_surface_remove_resource
                                (@, "BUFFER", ScreenRefreshBuffer(s, sid))]
    ELSE s

\* wayland-gateway.c:108-112
KeyboardFocusClientsDiffer(s, old_sid, new_sid) ==
    noia_wayland_cache_get_rc_for_sid(s, new_sid).cl
        # noia_wayland_cache_get_rc_for_sid(s, old_sid).cl

\* wayland-gateway.c:119-134
KeyboardFocusEvents(s, g, old_sid, new_sid) ==
    IF KeyboardFocusClientsDiffer(s, old_sid, new_sid)
    THEN FocusEvents(noia_wayland_cache_get_resources(g, "KEYBOARD"),
                     noia_wayland_cache_get_rc_for_sid(s, old_sid),
                     noia_wayland_cache_get_rc_for_sid(s, new_sid),
                     "keyboard.leave", "keyboard.enter", 0)
    ELSE <<>>

\* wayland-gateway.c:117,137: keyboard_focused_sid after the first section
KeyboardFocusSid(s, kfsid, old_sid, new_sid) ==
    IF KeyboardFocusClientsDiffer(s, old_sid, new_sid) THEN new_sid ELSE kfsid

\* wayland-gateway.c:224-246
PointerFocusEvents(s, g, pfsid, new_sid) ==
    FocusEvents(noia_wayland_cache_get_resources(g, "POINTER"),
                noia_wayland_cache_get_rc_for_sid(s, pfsid),
                noia_wayland_cache_get_rc_for_sid(s, new_sid),
                "pointer.leave", "pointer.enter", 1)

RECURSIVE OfferEvents(_, _)
OfferEvents(offer_rc, mimes) ==
    IF mimes = <<>> THEN <<>>
    ELSE <<Ev("data_offer.offer", offer_rc, Head(mimes), 0)>>
         \o OfferEvents(offer_rc, Tail(mimes))

RECURSIVE SelectionEvents(_, _, _)
SelectionEvents(devices, cl, mimes) ==
    IF devices = <<>> THEN <<>>
    ELSE LET dev == Head(devices)
             offer == DataOfferRc(dev)
         IN (IF wl_resource_get_client(dev) = cl
             THEN <<Ev("data_device.data_offer", dev, offer, 0)>>
                  \o OfferEvents(offer, mimes)
                  \o <<Ev("data_offer.action", offer, "copy", 0),
                       Ev("data_device.selection", dev, offer, 0)>>
             ELSE <<>>)
            \o SelectionEvents(Tail(devices), cl, mimes)

\* wayland-gateway.c:56-88
SendSelectionEvents(s, g, kfsid, transfer, tr) ==
    IF transfer # NULL /\ transfer \in DOMAIN tr
    THEN SelectionEvents(noia_wayland_cache_get_resources(g, "DATA_DEVICE"),
                         noia_wayland_cache_get_rc_for_sid(s, kfsid).cl,
                         tr[transfer].mime_types)
    ELSE <<>>

\* the transfer send_selection reads was freed by noia_wayland_transfer_destroy
SendSelectionReadsFreed(transfer, tr) ==
    transfer # NULL /\ transfer \notin DOMAIN tr

\* the data offers send_selection creates (wayland-gateway.c:71-72)
SendSelectionOffers(s, g, kfsid, transfer, tr) ==
    IF transfer # NULL /\ transfer \in DOMAIN tr
    THEN {DataOfferRc(g["DATA_DEVICE"][i]) :
            i \in {j \in 1..Len(g["DATA_DEVICE"]) :
                     wl_resource_get_client(g["DATA_DEVICE"][j])
                       = noia_wayland_cache_get_rc_for_sid(s, kfsid).cl}}
    ELSE {}

RECURSIVE LiveOnly(_, _)
\* the entries of a resource list that are resources libwayland still holds
LiveOnly(list, lv) ==
    IF list = <<>> THEN <<>>
    ELSE (IF Head(list) \in lv THEN <<Head(list)>> ELSE <<>>)
         \o LiveOnly(Tail(list), lv)

Prefixes(events) == {SubSeq(events, 1, k) : k \in 0..Len(events)}

\* wayland-gateway.c:60-88 with the pointers it follows: the loop calls
\* wl_resource_get_client on every entry of the data device list, also on one
\* whose resource was destroyed, and reads the MIME list of the transfer for
\* every device of the focused client, also when the transfer was freed
SendSelectionFault(s, g, kfsid, transfer, tr, lv) ==
    LET devices == noia_wayland_cache_get_resources(g, "DATA_DEVICE")
        cl == noia_wayland_cache_get_rc_for_sid(s, kfsid).cl
    IN IF transfer = NULL THEN "none"
       ELSE IF LiveOnly(devices, lv) # devices THEN "freed_resource"
       ELSE IF /\ transfer \notin DOMAIN tr
               /\ \E i \in 1..Len(devices) :
                     wl_resource_get_client(devices[i]) = cl
       THEN "freed_transfer"
       ELSE "none"

\* what send_selection may send: the events of SendSelectionEvents when it
\* follows no dangling pointer; else the events for the destroyed devices
\* taken as matching or as not matching and for the freed MIME list read as
\* empty or as one type, or a prefix of these when the call dies on the way
SendSelectionOutcomes(s, g, kfsid, transfer, tr, lv) ==
    LET devices == noia_wayland_cache_get_resources(g, "DATA_DEVICE")
        cl == noia_wayland_cache_get_rc_for_sid(s, kfsid).cl
        fault_ == SendSelectionFault(s, g, kfsid, transfer, tr, lv)
        mimes == IF transfer \in DOMAIN tr
                 THEN {tr[transfer].mime_types}
                 ELSE {<<>>} \cup {<<m>> : m \in ClipboardMimeTypes}
    IN IF fault_ = "none"
       THEN {SendSelectionEvents(s, g, kfsid, transfer, tr)}
       ELSE UNION {Prefixes(SelectionEvents(d, cl, m)) :
                     d \in {devices, LiveOnly(devices, lv)}, m \in mimes}

RECURSIVE NotifyFrames(_, _)
\* wayland-gateway.c:41-46 on the surface record `self`: noia_list_pop,
\* wl_callback_send_done, and wl_resource_destroy, which tells the client the
\* id is free (wl_display.delete_id) and runs
\* noia_wayland_surface_frame_unbind (wayland-protocol-surface.c:24-30).
\* The result is the events and the surface record after the loop.
NotifyFrames(self, milliseconds) ==
    IF Len(self.frame_resources) = 0
    THEN [sent |-> <<>>, surface |-> self]
    ELSE LET rc == Head(self.frame_resources)
             popped == [self EXCEPT
                          !.frame_resources = Tail(@),
                          !.frame_head_prev =
                              IF Tail(self.frame_resources) = <<>>
                              THEN "null" ELSE "freed"]
             rest == NotifyFrames(
                         noia_wayland_surface_remove_resource(popped, "FRAME", rc),
                         milliseconds)
         IN [sent |-> <<Ev("callback.done", rc, milliseconds, 0),
                        Ev("display.delete_id", rc, NULL, 0)>> \o rest.sent,
             surface |-> rest.surface]

\* wl_fixed_from_int: 24.8 fixed point
wl_fixed_from_int(i) == i * 256

RECURSIVE MotionEvents(_, _, _, _)
\* wayland-gateway.c:267-274: the FOR_EACH over the pointer resources
MotionEvents(resources, info, pos, milliseconds) ==
    IF resources = <<>> THEN <<>>
    ELSE (IF info.cl = wl_resource_get_client(Head(resources))
          THEN <<Ev("pointer.motion", Head(resources),
                    <<milliseconds, wl_fixed_from_int(pos.x),
                      wl_fixed_from_int(pos.y)>>, 0)>>
          ELSE <<>>)
         \o MotionEvents(Tail(resources), info, pos, milliseconds)

\* wayland-gateway.c:262-275
PointerMotionEvents(s, g, sid, pos, milliseconds) ==
    LET info == noia_wayland_cache_get_rc_for_sid(s, sid)
    IN IF info.cl # NULL
       THEN MotionEvents(noia_wayland_cache_get_resources(g, "POINTER"),
                         info, pos, milliseconds)
       ELSE <<>>

\* a reconfiguration that asks for the xdg slot first
reconfigured_prefers_xdg(s, kfsid, sid, size, state_flags, serial) ==
    IF ~noia_wayland_cache_find_surface(s, sid) THEN <<>>
    ELSE IF noia_wayland_surface_get_resource(s[sid], "XDG_SHELL_SURFACE") # NULL
    THEN <<Ev("xdg_surface.configure",
              noia_wayland_surface_get_resource(s[sid], "XDG_SHELL_SURFACE"),
              <<size.width, size.height,
                (IF "MAXIMIZED" \in state_flags THEN <<"maximized">> ELSE <<>>)
                \o (IF sid = kfsid THEN <<"activated">> ELSE <<>>)>>,
              serial + 1)>>
    ELSE IF noia_wayland_surface_get_resource(s[sid], "SHELL_SURFACE") # NULL
    THEN <<Ev("shell_surface.configure",
              noia_wayland_surface_get_resource(s[sid], "SHELL_SURFACE"),
              <<0, size.width, size.height>>, 0)>>
    ELSE <<>>

\* wayland-gateway.c:377-419; `serial` is the number of serials the call took
\* before
SurfaceReconfiguredEvents(s, kfsid, sid, size, state_flags, serial) ==
    IF ~noia_wayland_cache_find_surface(s, sid) THEN <<>>
    ELSE LET shell_surface_rc ==
                 noia_wayland_surface_get_resource(s[sid], "SHELL_SURFACE")
             xdg_shell_surface_rc ==
                 noia_wayland_surface_get_resource(s[sid], "XDG_SHELL_SURFACE")
             states ==
                 (IF "MAXIMIZED" \in state_flags THEN <<"maximized">> ELSE <<>>)
                 \o (IF sid = kfsid THEN <<"activated">> ELSE <<>>)
         IN IF shell_surface_rc # NULL
            THEN <<Ev("shell_surface.configure", shell_surface_rc,
                      <<0, size.width, size.height>>, 0)>>
            ELSE IF xdg_shell_surface_rc # NULL
            THEN <<Ev("xdg_surface.configure", xdg_shell_surface_rc,
                      <<size.width, size.height, states>>, serial + 1)>>
            ELSE <<>>

\* the serials an event sequence took
SerialsTaken(events) ==
    Cardinality({i \in 1..Len(events) : events[i].serial # 0})

\* NoiaKeyMods as xkb reports them (utils-keyboard-state.c:108-116), and the
\* (time, key_code, key_state) of a key call
KeyMods == [depressed : 0..1, latched : {0}, locked : 0..1, effective : {0}]
Keys == [time : {7}, code : {30}, state : {1}]

\* a comparison that looks at the depressed modifiers only
keymods_depressed_equal(km1, km2) == km1.depressed = km2.depressed

\* utils-keyboard-state.c:22-28
noia_keymods_are_equal(km1, km2) ==
    /\ km1.depressed = km2.depressed
    /\ km1.latched = km2.latched
    /\ km1.locked = km2.locked
    /\ km1.effective = km2.effective

RECURSIVE KeyEvents(_, _, _, _, _)
\* wayland-gateway.c:190-206: the FOR_EACH over the keyboard resources
KeyEvents(resources, focused, key, mods_changed, new_mods) ==
    IF resources = <<>> THEN <<>>
    ELSE LET rc == Head(resources)
         IN (IF focused.cl = wl_resource_get_client(rc)
             THEN <<Ev("keyboard.key", rc,
                       <<key.time, key.code, key.state>>, 1)>>
                  \o (IF mods_changed
                      THEN <<Ev("keyboard.modifiers", rc,
                                <<new_mods.depressed, new_mods.latched,
                                  new_mods.locked, new_mods.effective>>, 1)>>
                      ELSE <<>>)
             ELSE <<>>)
            \o KeyEvents(Tail(resources), focused, key, mods_changed, new_mods)

\* wayland-gateway.c:168, 180-208
GatewayKeyEvents(s, g, kfsid, key, old_mods, new_mods) ==
    LET focused == noia_wayland_cache_get_rc_for_sid(s, kfsid)
        mods_changed == ~noia_keymods_are_equal(new_mods, old_mods)
    IN IF focused.cl = NULL THEN <<>>
       ELSE KeyEvents(noia_wayland_cache_get_resources(g, "KEYBOARD"),
                      focused, key, mods_changed, new_mods)

-----------------------------------------------------------------------------
(* wayland-facade.c *)

\* the NoiaKeymapSettings the context is constructed with (format, fd, size)
keymap_settings == [format |-> 1, fd |-> 3, size |-> 4]

\* wayland-facade.c:334-337
noia_wayland_facade_get_keymap_settings == keymap_settings

\* an enter for whoever binds a keyboard while some surface is focused
add_keyboard_resource_enters_any(s, kfsid, rc) ==
    LET focused == noia_wayland_cache_get_rc_for_sid(s, kfsid)
    IN IF focused.cl # NULL
       THEN <<Ev("keyboard.enter", rc, focused.rc, 1)>>
       ELSE <<>>

\* wayland-facade.c:274-285: the enter a newly bound keyboard gets
AddKeyboardResourceEvents(s, kfsid, rc) ==
    LET focused == noia_wayland_cache_get_rc_for_sid(s, kfsid)
        rc_client == wl_resource_get_client(rc)
    IN IF focused.cl # NULL /\ rc_client # NULL /\ rc_client = focused.cl
       THEN <<Ev("keyboard.enter", rc, focused.rc, 1)>>
       ELSE <<>>

-----------------------------------------------------------------------------
(* The state after noia_wayland_cache_new, noia_wayland_state_new            *)

Threads == {"fe", "g1", "g2"}      \* frontend thread, two coordinator threads
GatewayThreads == {"g1", "g2"}
NoThread == "none"

NoLocals == [op |-> "none", sid |-> 0, rc |-> 0, next |-> <<>>,
             old |-> 0, new |-> 0, frcs |-> "null"]

\* the interfaces noia_wayland_engine_start registers (wayland-engine.c:139-174)
Globals == {"wl_compositor", "wl_subcompositor", "wl_data_device_manager",
            "wl_shell", "xdg_shell", "wl_seat", "screenshooter", "wl_shm"}

\* wayland-engine.c:67-75, with the state libwayland and pthread keep for it:
\*   display    "null" or "created"         socket   wayland-0 is listening
\*   src        the feeder timer exists      globals  the registered interfaces
\*   run        wl_display.run               running  NoiaWaylandEngine.running
\*   thread     "none", "created" (pthread_create returned), "looping" (inside
\*              wl_display_run), "exited", "joined"
\*   result     what noia_wayland_context_initialize returned, "none" before
\*   caller     "idle", or where the thread that called stop is blocked
\*   terminates, joins   the wl_display_terminate and pthread_join calls made
noia_wayland_engine_new ==
    [display |-> "null", src |-> FALSE, socket |-> FALSE, globals |-> {},
     run |-> FALSE, running |-> FALSE, thread |-> "none", result |-> "none",
     caller |-> "idle", terminates |-> 0, joins |-> 0]

\* the engine of a frontend that came up: initialized, started, its thread
\* dispatching requests
engine_serving ==
    [display |-> "created", src |-> TRUE, socket |-> TRUE, globals |-> Globals,
     run |-> TRUE, running |-> TRUE, thread |-> "looping",
     result |-> "success", caller |-> "idle", terminates |-> 0, joins |-> 0]

InitFrontend ==
    /\ surfaces = EmptyStore
    /\ regions = EmptyStore
    /\ general_resource = [t \in GeneralResourceTypes |-> <<>>]
    /\ mutex = NoThread
    /\ keyboard_focused_sid = scInvalidItemId
    /\ pointer_focused_sid = scInvalidItemId
    /\ current_transfer = NULL
    /\ transfers = EmptyStore
    /\ live = {}
    /\ pc = [t \in Threads |-> "idle"]
    /\ loc = [t \in Threads |-> NoLocals]
    /\ fault = "none"
    /\ chain = noia_list_new
    /\ coord = [surfaces |-> {}, kfocus |-> 0, pfocus |-> 0, calls |-> <<>>,
                satellites |-> EmptyStore]
    /\ sent = <<>>
    /\ hist = [rects |-> [rid \in Rids |-> <<>>],
               live_sids |-> {},
               kb_last |-> [rc \in SeatKeyboardRcs |-> "none"],
               ptr_last |-> [rc \in PointerRcs |-> "none"],
               kfu |-> <<>>,
               call |-> [op |-> "none", old |-> 0, new |-> 0],
               done |-> [rc \in FrameRcs |-> 0],
               offers |-> [t \in TransferIds |-> <<>>],
               frames |-> [sid \in Sids |-> <<>>]]

Init == InitFrontend /\ engine = engine_serving

-----------------------------------------------------------------------------
(* SpecRegion: wl_compositor.create_region, wl_region.add, wl_region.destroy *)

NotRegion == <<surfaces, general_resource, mutex, keyboard_focused_sid,
               pointer_focused_sid, current_transfer, transfers, live, pc, loc,
               sent>>

\* a call the Facade makes on the Coordinator: noia_surface_set_offset(sid,
\* pos), noia_surface_set_requested_size(sid, size) with the two components
\* of the position or size, and noia_surface_reset_offset_and_requested_size
Call(name, sid, a, b) == [call |-> name, sid |-> sid, a |-> a, b |-> b]

\* a request that makes none of these calls
NoCalls == [coord EXCEPT !.calls = <<>>]

\* wayland-protocol-compositor.c:38-45, wayland-facade.c:220-226,
\* wayland-cache.c:146-153
noia_wayland_create_region(rid) ==
    /\ fault = "none"
    /\ rid \notin DOMAIN regions          \* noia_store_generate_new_id
    /\ regions' = noia_store_add(regions, rid, noia_wayland_region_new)
    /\ hist' = [hist EXCEPT !.rects[rid] = <<>>]
    /\ coord' = NoCalls
    /\ UNCHANGED <<chain, engine, NotRegion, fault>>

\* wayland-facade.c:230-238; a region that is not found is dereferenced
noia_wayland_facade_inflate_region(rid, x, y, width, height) ==
    IF noia_wayland_cache_find_region(regions, rid)
    THEN /\ regions' = [regions EXCEPT ![rid] =
                          noia_wayland_region_inflate(@, x, y, width, height)]
         /\ UNCHANGED fault
    ELSE /\ fault' = "null_region"
         /\ UNCHANGED regions

\* wayland-protocol-region.c:37-50
noia_wayland_region_add(rid, rect) ==
    /\ fault = "none"
    /\ rid \in DOMAIN regions             \* the wl_region exists
    /\ Len(hist.rects[rid]) < MaxRects
    /\ noia_wayland_facade_inflate_region(rid, rect.x, rect.y, rect.w, rect.h)
    /\ hist' = [hist EXCEPT !.rects[rid] = Append(@, rect)]
    /\ coord' = NoCalls
    /\ UNCHANGED <<chain, engine, NotRegion>>

\* wayland-protocol-region.c:14-30, wayland-facade.c:257-262
noia_wayland_region_destroy(rid) ==
    /\ fault = "none"
    /\ rid \in DOMAIN regions
    /\ regions' = noia_wayland_cache_remove_region(regions, rid)
    /\ coord' = NoCalls
    /\ UNCHANGED <<chain, engine, NotRegion, fault, hist>>

\* a set_input_region that resets whatever the region is
set_input_region_resets(rs, sid, rid) ==
    <<Call("surface_reset_offset_and_requested_size", sid, 0, 0)>>

\* wayland-facade.c:242-253: the calls made on the Coordinator
noia_wayland_facade_set_input_region(rs, sid, rid) ==
    IF noia_wayland_cache_find_region(rs, rid)
    THEN <<Call("surface_set_offset", sid, rs[rid].x, rs[rid].y),
           Call("surface_set_requested_size", sid, rs[rid].w, rs[rid].h)>>
    ELSE <<Call("surface_reset_offset_and_requested_size", sid, 0, 0)>>

\* wayland-protocol-surface.c:131-146: wl_surface.set_input_region on the
\* wl_surface `resource`, with a wl_region that exists or with none
noia_wayland_surface_set_input_region(resource, region_resource) ==
    /\ fault = "none"
    /\ resource \in live \cap SurfaceRcs
    /\ region_resource \in DOMAIN regions \cup {NULL}
    /\ LET sid == wl_resource_get_user_data(resource)
           rid == IF region_resource # NULL THEN region_resource
                  ELSE scInvalidItemId
       IN coord' = [coord EXCEPT !.calls =
                       noia_wayland_facade_set_input_region(regions, sid, rid)]
    /\ UNCHANGED <<chain, engine, NotRegion, regions, fault, hist>>

SurfaceIdOps == {"add_surface_resource", "remove_surface_resource",
                 "remove_surface"}
RegionIdOps == {"inflate_region", "remove_region"}
\* the rectangle of an inflate_region whose region is not found: the first
\* write already goes through the null pointer
UnitRect == [x |-> 1, y |-> 1, w |-> 1, h |-> 1]

\* A call of the Facade with a surface id or a region id the Cache does not
\* hold (never created, or already removed):
\*   noia_wayland_facade_add_surface_resource (wayland-facade.c:75-83),
\*   noia_wayland_facade_remove_surface_resource (98-106),
\*   noia_wayland_facade_remove_surface (171-180),
\*   noia_wayland_facade_inflate_region (230-238),
\*   noia_wayland_facade_remove_region (257-262).
\* noia_wayland_surface_add_resource tests its surface with NOIA_ENSURE, which
\* global-macros.h:46-55 compiles away under NDEBUG: it returns or writes
\* through the null pointer, as the build decides.
facade_request_unknown_id(op, id, type, rc, rect) ==
    /\ fault = "none"
    /\ \/ /\ op = "add_surface_resource"
          /\ ~noia_wayland_cache_find_surface(surfaces, id)
          /\ surfaces' = noia_wayland_cache_add_surface_resource(
                             surfaces, id, type, rc)
          /\ fault' \in {"none", "null_surface"}
          /\ UNCHANGED regions
       \/ /\ op = "remove_surface_resource"
          /\ ~noia_wayland_cache_find_surface(surfaces, id)
          /\ surfaces' = noia_wayland_cache_remove_surface_resource(
                             surfaces, id, type, rc)
          /\ UNCHANGED <<chain, engine, regions, fault>>
       \/ /\ op = "remove_surface"
          /\ ~noia_wayland_cache_find_surface(surfaces, id)
          /\ surfaces' = noia_wayland_cache_remove_surface(
                             noia_wayland_cache_remove_surface_resource(
                                 surfaces, id, "SURFACE", rc),
                             id)
          /\ fault' = IF id # scInvalidSurfaceId
                         /\ StoreDeleteDerefsNull(surfaces, id)
                      THEN "null_item" ELSE "none"
          /\ UNCHANGED regions
       \/ /\ op = "inflate_region"
          /\ ~noia_wayland_cache_find_region(regions, id)
          /\ noia_wayland_facade_inflate_region(id, rect.x, rect.y,
                                                rect.w, rect.h)
          /\ UNCHANGED surfaces
       \/ /\ op = "remove_region"
          /\ ~noia_wayland_cache_find_region(regions, id)
          /\ regions' = noia_wayland_cache_remove_region(regions, id)
          /\ fault' = IF id # scInvalidItemId
                         /\ StoreDeleteDerefsNull(regions, id)
                      THEN "null_item" ELSE "none"
          /\ UNCHANGED surfaces
    /\ coord' = NoCalls
    /\ UNCHANGED <<chain, engine, general_resource, mutex, keyboard_focused_sid,
                   pointer_focused_sid, current_transfer, transfers, live, pc,
                   loc, sent, hist>>

(* Properties of SpecRegion *)

Positive(r) == r.x > 0 /\ r.y > 0 /\ r.w > 0 /\ r.h > 0

Min2(a, b) == IF a < b THEN a ELSE b
Max2(a, b) == IF a > b THEN a ELSE b

BoundingBox(r1, r2) ==
    [x |-> Min2(r1.x, r2.x),
     y |-> Min2(r1.y, r2.y),
     w |-> Max2(r1.x + r1.w, r2.x + r2.w) - Min2(r1.x, r2.x),
     h |-> Max2(r1.y + r1.h, r2.y + r2.h) - Min2(r1.y, r2.y)]

\* C10: a new region inflated with R1 and then with R2, both with strictly
\* positive position and positive extents, is the bounding box of R1 and R2:
\* the minimum of the origins and the maximum of the far corners, in x and y.
InflateTwiceIsBoundingBox ==
    \A rid \in DOMAIN regions :
        (/\ Len(hist.rects[rid]) = 2
         /\ Positive(hist.rects[rid][1])
         /\ Positive(hist.rects[rid][2]))
        => regions[rid] = BoundingBox(hist.rects[rid][1], hist.rects[rid][2])

\* C11: a newly created (all-zero) region inflated once with (x, y, w, h) is
\* exactly (x, y, w, h), whatever the four values are.
FirstInflateSetsRegion ==
    \A rid \in DOMAIN regions :
        Len(hist.rects[rid]) = 1 => regions[rid] = hist.rects[rid][1]

\* a region inflated once with a rectangle that is not all-zero
RegionInflatedOnce ==
    \E rid \in DOMAIN regions :
        /\ Len(hist.rects[rid]) = 1
        /\ hist.rects[rid][1] = [x |-> 2, y |-> 1, w |-> 1, h |-> 2]
        /\ regions[rid] = [x |-> 2, y |-> 1, w |-> 1, h |-> 2]

(* Properties of SpecInput *)

\* C12: set_input_region(sid, rid) naming a region that exists but is not
\* valid resets the surface's offset and requested size and does not forward
\* the region's position or size.
InvalidInputRegionResets ==
    [][\A resource \in SurfaceRcs, rid \in Rids :
          (/\ noia_wayland_surface_set_input_region(resource, rid)
           /\ ~noia_wayland_region_is_valid(regions[rid]))
          => coord'.calls =
                 <<Call("surface_reset_offset_and_requested_size",
                        wl_resource_get_user_data(resource), 0, 0)>>
      ]_vars

\* C14: a Facade request that names a surface id or a region id the Cache
\* does not hold (add_surface_resource, remove_surface_resource,
\* remove_surface, inflate_region, remove_region) is a no-op: every cache
\* record stays as it is and no fault is reached, whatever the Cache holds.
UnknownIdRequestIsNoOp ==
    [][\A op \in SurfaceIdOps \cup RegionIdOps, id \in Sids \cup Rids,
          rc \in SurfaceRcs \cup {NULL} :
          facade_request_unknown_id(op, id, "SURFACE", rc, UnitRect)
          => /\ fault' = "none"
             /\ surfaces' = surfaces
             /\ regions' = regions
             /\ general_resource' = general_resource
      ]_vars

\* C13: set_input_region(sid, rid) with a valid region makes the Coordinator
\* observe surface_set_offset(sid, pos) and then
\* surface_set_requested_size(sid, size) and no reset; with a null region it
\* observes exactly one surface_reset_offset_and_requested_size(sid) and
\* neither set call.
InputRegionForwardedOrReset ==
    [][\A resource \in SurfaceRcs, region_resource \in Rids \cup {NULL} :
          noia_wayland_surface_set_input_region(resource, region_resource)
          => LET sid == wl_resource_get_user_data(resource)
                 rid == region_resource
             IN IF rid = NULL
                THEN coord'.calls =
                         <<Call("surface_reset_offset_and_requested_size",
                                sid, 0, 0)>>
                ELSE noia_wayland_region_is_valid(regions[rid])
                     => coord'.calls =
                            <<Call("surface_set_offset", sid,
                                   regions[rid].x, regions[rid].y),
                              Call("surface_set_requested_size", sid,
                                   regions[rid].w, regions[rid].h)>>
      ]_vars

\* the Coordinator has just been given the position and then the size of a
\* valid input region
InputRegionForwarded ==
    /\ coord.calls = <<Call("surface_set_offset", 1, 1, 2),
                       Call("surface_set_requested_size", 1, 2, 1)>>
    /\ \E rid \in DOMAIN regions :
          regions[rid] = [x |-> 1, y |-> 2, w |-> 2, h |-> 1]

-----------------------------------------------------------------------------
(* SpecFocus: the requests and the events that touch surfaces, keyboards,    *)
(* pointers and the two focuses; every call runs from entry to return        *)

NotFocus == <<regions, mutex, current_transfer, transfers, pc, loc, fault>>

RECURSIVE LastEventTo(_, _, _, _)
\* the name of the last event of `names` that `events` sends to rc, else prev
LastEventTo(events, rc, names, prev) ==
    IF events = <<>> THEN prev
    ELSE LastEventTo(Tail(events), rc, names,
                     IF Head(events).to = rc /\ Head(events).ev \in names
                     THEN Head(events).ev ELSE prev)

KeyboardFocusNames == {"keyboard.enter", "keyboard.leave"}
PointerFocusNames == {"pointer.enter", "pointer.leave"}

\* the history after a call that sent `events`
Recorded(h, events, op, old, new) ==
    [h EXCEPT
       !.kb_last = [rc \in SeatKeyboardRcs |->
                      LastEventTo(events, rc, KeyboardFocusNames, h.kb_last[rc])],
       !.ptr_last = [rc \in PointerRcs |->
                      LastEventTo(events, rc, PointerFocusNames, h.ptr_last[rc])],
       !.kfu = IF op = "keyboard_focus_update"
               THEN (IF h.kfu = <<>> THEN <<>> ELSE <<h.kfu[Len(h.kfu)]>>)
                    \o <<[old |-> old, new |-> new, sent |-> events]>>
               ELSE <<>>,
       !.call = [op |-> op, old |-> old, new |-> new]]

\* wayland-protocol-compositor.c:25-32, wayland-protocol-surface.c:217-234,
\* wayland-facade.c:121-128.  The Coordinator mints an id none of its surfaces
\* has and that it does not still report as focused.
noia_wayland_create_surface(c, sid) ==
    /\ fault = "none"
    /\ sid \notin coord.surfaces \cup {coord.kfocus, coord.pfocus}
    /\ surfaces' = noia_wayland_cache_add_surface_resource(
                       noia_wayland_cache_create_surface(surfaces, sid),
                       sid, "SURFACE", SurfaceRc(sid, c))
    /\ live' = live \cup {SurfaceRc(sid, c)}
    /\ coord' = [coord EXCEPT !.surfaces = @ \cup {sid}, !.calls = <<>>]
    /\ sent' = <<>>
    /\ hist' = [Recorded(hist, <<>>, "add_surface", 0, sid)
                  EXCEPT !.live_sids = @ \cup {sid}]
    /\ UNCHANGED <<chain, engine, NotFocus, general_resource, keyboard_focused_sid,
                   pointer_focused_sid>>

\* wayland-protocol-surface.c:14-19,35-41, wayland-facade.c:171-180
noia_wayland_surface_unbind(rc) ==
    /\ fault = "none"
    /\ rc \in live \cap SurfaceRcs
    /\ LET sid == wl_resource_get_user_data(rc)
       IN /\ coord' = [coord EXCEPT !.surfaces = @ \ {sid}]   \* noia_surface_destroy
          /\ surfaces' = noia_wayland_cache_remove_surface(
                             noia_wayland_cache_remove_surface_resource(
                                 surfaces, sid, "SURFACE", rc),
                             sid)
          /\ hist' = [Recorded(hist, <<>>, "remove_surface", 0, sid)
                        EXCEPT !.live_sids = @ \ {sid}]
    /\ live' = live \ {rc}
    /\ sent' = <<>>
    /\ UNCHANGED <<chain, engine, NotFocus, general_resource, keyboard_focused_sid,
                   pointer_focused_sid>>

\* wayland-protocol-keyboard.c:37-64, wayland-facade.c:266-288
noia_wayland_keyboard_bind(rc) ==
    /\ fault = "none"
    /\ rc \in SeatKeyboardRcs \ live
    /\ general_resource' =
           noia_wayland_cache_add_general_resource(general_resource, "KEYBOARD", rc)
    /\ sent' = AddKeyboardResourceEvents(surfaces, keyboard_focused_sid, rc)
    /\ live' = live \cup {rc}
    /\ hist' = Recorded(hist, sent', "add_keyboard_resource", 0, 0)
    /\ UNCHANGED <<chain, engine, NotFocus, surfaces, keyboard_focused_sid, pointer_focused_sid,
                   coord>>

\* wayland-protocol-keyboard.c:13-27, wayland-facade.c:110-117
noia_wayland_keyboard_release(rc) ==
    /\ fault = "none"
    /\ rc \in live \cap SeatKeyboardRcs
    /\ general_resource' =
           noia_wayland_cache_remove_general_resource(general_resource, "KEYBOARD", rc)
    /\ sent' = <<>>
    /\ live' = live \ {rc}
    /\ hist' = [Recorded(hist, <<>>, "remove_general_resource", 0, 0)
                  EXCEPT !.kb_last[rc] = "none"]
    /\ UNCHANGED <<chain, engine, NotFocus, surfaces, keyboard_focused_sid, pointer_focused_sid,
                   coord>>

\* wayland-protocol-pointer.c:60-75, wayland-facade.c:87-94
noia_wayland_pointer_bind(rc) ==
    /\ fault = "none"
    /\ rc \in PointerRcs \ live
    /\ general_resource' =
           noia_wayland_cache_add_general_resource(general_resource, "POINTER", rc)
    /\ sent' = <<>>
    /\ live' = live \cup {rc}
    /\ hist' = Recorded(hist, <<>>, "add_general_resource", 0, 0)
    /\ UNCHANGED <<chain, engine, NotFocus, surfaces, keyboard_focused_sid, pointer_focused_sid,
                   coord>>

\* wayland-protocol-pointer.c:13-17,44-49, wayland-facade.c:110-117
noia_wayland_pointer_release(rc) ==
    /\ fault = "none"
    /\ rc \in live \cap PointerRcs
    /\ general_resource' =
           noia_wayland_cache_remove_general_resource(general_resource, "POINTER", rc)
    /\ sent' = <<>>
    /\ live' = live \ {rc}
    /\ hist' = [Recorded(hist, <<>>, "remove_general_resource", 0, 0)
                  EXCEPT !.ptr_last[rc] = "none"]
    /\ UNCHANGED <<chain, engine, NotFocus, surfaces, keyboard_focused_sid, pointer_focused_sid,
                   coord>>

\* wayland-gateway.c:95-151.  The Coordinator reports its focus moving from
\* the surface it had focused to another of its surfaces, or to none.
noia_wayland_gateway_keyboard_focus_update(old_sid, size, flags, new_sid) ==
    /\ fault = "none"
    /\ old_sid = coord.kfocus
    /\ new_sid \in (coord.surfaces \cup {scInvalidSurfaceId}) \ {old_sid}
    /\ LET differ == KeyboardFocusClientsDiffer(surfaces, old_sid, new_sid)
           kfsid == KeyboardFocusSid(surfaces, keyboard_focused_sid,
                                     old_sid, new_sid)
           focus == KeyboardFocusEvents(surfaces, general_resource,
                                        old_sid, new_sid)
           selections ==
               IF differ
               THEN SendSelectionOutcomes(surfaces, general_resource, kfsid,
                                          current_transfer, transfers, live)
               ELSE {<<>>}
           offers ==
               IF differ
               THEN SendSelectionOffers(surfaces, general_resource, kfsid,
                                        current_transfer, transfers)
               ELSE {}
           conf_old == SurfaceReconfiguredEvents(surfaces, kfsid, old_sid,
                                                 size, flags, 0)
           conf_new == SurfaceReconfiguredEvents(surfaces, kfsid, new_sid,
                                                 size, flags,
                                                 SerialsTaken(conf_old))
       IN /\ keyboard_focused_sid' = kfsid
          /\ \E selection \in selections :
                sent' = focus \o selection \o conf_old \o conf_new
          /\ live' = live \cup offers
          /\ fault' = IF differ
                      THEN SendSelectionFault(surfaces, general_resource, kfsid,
                                              current_transfer, transfers, live)
                      ELSE fault
    /\ coord' = [coord EXCEPT !.kfocus = new_sid]
    /\ hist' = Recorded(hist, sent', "keyboard_focus_update", old_sid, new_sid)
    /\ UNCHANGED <<chain, engine, regions, mutex, current_transfer, transfers, pc, loc,
                   surfaces, general_resource, pointer_focused_sid>>

\* wayland-gateway.c:215-249
noia_wayland_gateway_pointer_focus_update(new_sid) ==
    /\ fault = "none"
    /\ new_sid \in (coord.surfaces \cup {scInvalidSurfaceId}) \ {coord.pfocus}
    /\ sent' = PointerFocusEvents(surfaces, general_resource,
                                  pointer_focused_sid, new_sid)
    /\ pointer_focused_sid' = new_sid
    /\ coord' = [coord EXCEPT !.pfocus = new_sid]
    /\ hist' = Recorded(hist, sent', "pointer_focus_update",
                        pointer_focused_sid, new_sid)
    /\ UNCHANGED <<chain, engine, NotFocus, surfaces, general_resource, keyboard_focused_sid,
                   live>>

\* wayland-protocol-xdg-shell.c:44-56, wayland-protocol-xdg-surface.c:223-241,
\* wayland-facade.c:132-140: xdg_shell.get_xdg_surface on a wl_surface
noia_wayland_xdg_surface_bind(rc) ==
    /\ fault = "none"
    /\ rc \in XdgSurfaceRcs \ live
    /\ \E c \in Clients : SurfaceRc(wl_resource_get_user_data(rc), c) \in live
    /\ surfaces' = noia_wayland_cache_add_surface_resource(
                       surfaces, wl_resource_get_user_data(rc),
                       "XDG_SHELL_SURFACE", rc)
    /\ live' = live \cup {rc}
    /\ sent' = <<>>
    /\ hist' = Recorded(hist, <<>>, "add_shell_surface", 0,
                        wl_resource_get_user_data(rc))
    /\ UNCHANGED <<chain, engine, NotFocus, general_resource, keyboard_focused_sid,
                   pointer_focused_sid, coord>>

\* wayland-protocol-xdg-surface.c:15-21, wayland-facade.c:98-106: libwayland
\* destroys the xdg_surface resource
noia_wayland_xdg_surface_unbind(rc) ==
    /\ fault = "none"
    /\ rc \in live \cap XdgSurfaceRcs
    /\ surfaces' = noia_wayland_cache_remove_surface_resource(
                       surfaces, wl_resource_get_user_data(rc),
                       "XDG_SHELL_SURFACE", rc)
    /\ live' = live \ {rc}
    /\ sent' = <<>>
    /\ hist' = Recorded(hist, <<>>, "remove_surface_resource", 0,
                        wl_resource_get_user_data(rc))
    /\ UNCHANGED <<chain, engine, NotFocus, general_resource, keyboard_focused_sid,
                   pointer_focused_sid, coord>>

\* wayland-protocol-data-device.c:74-89, wayland-facade.c:87-94; the resource
\* is a new allocation, at an address no list entry holds
noia_wayland_data_device_bind(rc) ==
    /\ fault = "none"
    /\ rc \in DataDeviceRcs \ live
    /\ ~InList(general_resource["DATA_DEVICE"], rc)
    /\ general_resource' = noia_wayland_cache_add_general_resource(
                               general_resource, "DATA_DEVICE", rc)
    /\ live' = live \cup {rc}
    /\ sent' = <<>>
    /\ hist' = Recorded(hist, <<>>, "add_general_resource", 0, 0)
    /\ UNCHANGED <<chain, engine, NotFocus, surfaces, keyboard_focused_sid,
                   pointer_focused_sid, coord>>

\* wayland-protocol-data-device.c:16-19,56-62: wl_data_device.release destroys
\* the resource; its unbind callback only logs
noia_wayland_data_device_unbind(rc) ==
    /\ fault = "none"
    /\ rc \in live \cap DataDeviceRcs
    /\ live' = live \ {rc}
    /\ sent' = <<>>
    /\ hist' = Recorded(hist, <<>>, "unbind", 0, 0)
    /\ UNCHANGED <<chain, engine, NotFocus, surfaces, general_resource, keyboard_focused_sid,
                   pointer_focused_sid, coord>>

\* wayland-protocol-xdg-shell.c:62-84, wayland-protocol-xdg-popup.c:38-55:
\* xdg_shell.get_xdg_popup on a wl_surface
noia_wayland_xdg_popup_bind(rc) ==
    /\ fault = "none"
    /\ rc \in XdgPopupRcs \ live
    /\ ~InList(general_resource["OTHER"], rc)
    /\ \E c \in Clients : SurfaceRc(wl_resource_get_user_data(rc), c) \in live
    /\ general_resource' = noia_wayland_cache_add_general_resource(
                               general_resource, "OTHER", rc)
    /\ live' = live \cup {rc}
    /\ sent' = <<>>
    /\ hist' = Recorded(hist, <<>>, "add_general_resource", 0, 0)
    /\ UNCHANGED <<chain, engine, NotFocus, surfaces, keyboard_focused_sid,
                   pointer_focused_sid, coord>>

\* wayland-protocol-xdg-popup.c:15-19: the unbind callback only logs
noia_wayland_xdg_popup_unbind(rc) ==
    /\ fault = "none"
    /\ rc \in live \cap XdgPopupRcs
    /\ live' = live \ {rc}
    /\ sent' = <<>>
    /\ hist' = Recorded(hist, <<>>, "unbind", 0, 0)
    /\ UNCHANGED <<chain, engine, NotFocus, surfaces, general_resource, keyboard_focused_sid,
                   pointer_focused_sid, coord>>

\* wayland-gateway.c:155-211: the Coordinator reports a key; old_mods and
\* new_mods are the modifiers xkb reports before and after it
noia_wayland_gateway_key_call(key, old_mods, new_mods) ==
    /\ fault = "none"
    /\ sent' = IF keyboard_focused_sid = scInvalidItemId THEN <<>>
               ELSE GatewayKeyEvents(surfaces, general_resource,
                                     keyboard_focused_sid, key, old_mods,
                                     new_mods)
    /\ hist' = Recorded(hist, sent', "key", old_mods,
                        [key |-> key, mods |-> new_mods])
    /\ UNCHANGED <<chain, engine, NotFocus, surfaces, general_resource, keyboard_focused_sid,
                   pointer_focused_sid, live, coord>>

\* wayland-gateway.c:255-278: the Coordinator reports a motion of the pointer
\* over one of its surfaces
noia_wayland_gateway_pointer_motion(sid, pos, milliseconds) ==
    /\ fault = "none"
    /\ sid \in coord.surfaces
    /\ sent' = PointerMotionEvents(surfaces, general_resource, sid, pos,
                                   milliseconds)
    /\ hist' = Recorded(hist, sent', "pointer_motion", 0, sid)
    /\ UNCHANGED <<chain, engine, NotFocus, surfaces, general_resource, keyboard_focused_sid,
                   pointer_focused_sid, live, coord>>

\* wayland-facade.c:154-167: the call made on the Coordinator; `a` stands for
\* the width, height, stride and data of the buffer
noia_wayland_facade_surface_attach(sid, rc, brc) ==
    <<Call("surface_attach", sid, brc, rc)>>

\* a commit handed on twice
facade_commit_twice(sid) ==
    <<Call("surface_commit", sid, 0, 0), Call("surface_commit", sid, 0, 0)>>

\* wayland-facade.c:33-36
noia_wayland_facade_commit(sid) == <<Call("surface_commit", sid, 0, 0)>>

\* wayland-protocol-surface.c:46-72, wayland-facade.c:154-167
noia_wayland_surface_attach(resource, buffer_resource) ==
    /\ fault = "none"
    /\ resource \in live \cap SurfaceRcs
    /\ buffer_resource \in BufferRcs \cup {NULL}
    /\ LET sid == wl_resource_get_user_data(resource)
       IN /\ surfaces' = noia_wayland_cache_add_surface_resource(
                             surfaces, sid, "BUFFER", buffer_resource)
          /\ coord' = [coord EXCEPT !.calls =
                         noia_wayland_facade_surface_attach(sid, resource,
                                                            buffer_resource)]
          /\ hist' = Recorded(hist, <<>>, "surface_attach", 0, sid)
    /\ sent' = <<>>
    /\ UNCHANGED <<chain, engine, NotFocus, general_resource, keyboard_focused_sid,
                   pointer_focused_sid, live>>

\* wayland-protocol-surface.c:152-160, wayland-facade.c:33-36
noia_wayland_surface_commit(resource) ==
    /\ fault = "none"
    /\ resource \in live \cap SurfaceRcs
    /\ LET sid == wl_resource_get_user_data(resource)
       IN /\ coord' = [coord EXCEPT !.calls = noia_wayland_facade_commit(sid)]
          /\ hist' = Recorded(hist, <<>>, "surface_commit", 0, sid)
    /\ sent' = <<>>
    /\ UNCHANGED <<chain, engine, NotFocus, surfaces, general_resource, keyboard_focused_sid,
                   pointer_focused_sid, live>>

\* wayland-protocol-surface.c:91-107, wayland-facade.c:75-83: wl_surface.frame
\* with a new wl_callback
noia_wayland_surface_frame(resource, callback) ==
    /\ fault = "none"
    /\ resource \in live \cap SurfaceRcs
    /\ callback \in FrameRcs \ live
    /\ wl_resource_get_user_data(callback) = wl_resource_get_user_data(resource)
    /\ LET sid == wl_resource_get_user_data(resource)
       IN /\ surfaces' = noia_wayland_cache_add_surface_resource(
                             surfaces, sid, "FRAME", callback)
          /\ hist' = [Recorded(hist, <<>>, "surface_frame", 0, sid)
                        EXCEPT !.frames[sid] = Append(@, callback)]
    /\ live' = live \cup {callback}
    /\ coord' = NoCalls
    /\ sent' = <<>>
    /\ UNCHANGED <<chain, engine, NotFocus, general_resource, keyboard_focused_sid,
                   pointer_focused_sid>>

\* wayland-protocol-surface.c:24-30, wayland-facade.c:98-106: libwayland
\* destroys a wl_callback that was not notified (its client is gone)
noia_wayland_surface_frame_unbind(resource) ==
    /\ fault = "none"
    /\ resource \in live \cap FrameRcs
    /\ LET sid == wl_resource_get_user_data(resource)
       IN /\ surfaces' = noia_wayland_cache_remove_surface_resource(
                             surfaces, sid, "FRAME", resource)
          /\ hist' = [Recorded(hist, <<>>, "frame_unbind", resource, sid)
                        EXCEPT !.frames[sid] =
                                 SelectSeq(@, LAMBDA rc : rc # resource)]
    /\ live' = live \ {resource}
    /\ coord' = NoCalls
    /\ sent' = <<>>
    /\ UNCHANGED <<chain, engine, NotFocus, general_resource, keyboard_focused_sid,
                   pointer_focused_sid>>

\* wayland-gateway.c:17-47, from entry to return, for a surface the
\* Coordinator has
noia_wayland_gateway_screen_refresh(sid, milliseconds) ==
    /\ fault = "none"
    /\ sid \in coord.surfaces
    /\ noia_wayland_cache_find_surface(surfaces, sid)
    /\ LET released == ScreenRefreshSurfaces(surfaces, sid)
           notified == NotifyFrames(released[sid], milliseconds)
       IN /\ sent' = ScreenRefreshEvents(surfaces, sid) \o notified.sent
          /\ surfaces' = [released EXCEPT ![sid] = notified.surface]
          /\ live' = live \ {notified.sent[i].to : i \in 1..Len(notified.sent)}
    /\ hist' = [Recorded(hist, sent', "screen_refresh", 0, sid)
                  EXCEPT !.frames[sid] = SelectSeq(@, LAMBDA rc : rc \in live')]
    /\ coord' = NoCalls
    /\ UNCHANGED <<chain, engine, NotFocus, general_resource, keyboard_focused_sid,
                   pointer_focused_sid>>

OneSize == [width |-> 1, height |-> 1]

NextFocus ==
    \/ \E c \in Clients, sid \in Sids : noia_wayland_create_surface(c, sid)
    \/ \E rc \in SurfaceRcs : noia_wayland_surface_unbind(rc)
    \/ \E rc \in KeyboardRcs : noia_wayland_keyboard_bind(rc)
    \/ \E rc \in KeyboardRcs : noia_wayland_keyboard_release(rc)
    \/ \E rc \in PointerRcs : noia_wayland_pointer_bind(rc)
    \/ \E rc \in PointerRcs : noia_wayland_pointer_release(rc)
    \/ \E new_sid \in Sids \cup {scInvalidSurfaceId} :
          noia_wayland_gateway_keyboard_focus_update(coord.kfocus, OneSize, {},
                                                     new_sid)
    \/ \E new_sid \in Sids \cup {scInvalidSurfaceId} :
          noia_wayland_gateway_pointer_focus_update(new_sid)

SpecFocus == Init /\ [][NextFocus]_vars

NextRegion ==
    \/ \E rid \in Rids : noia_wayland_create_region(rid)
    \/ \E rid \in Rids, rect \in Rects : noia_wayland_region_add(rid, rect)
    \/ \E rid \in Rids : noia_wayland_region_destroy(rid)

SpecRegion == Init /\ [][NextRegion]_vars

-----------------------------------------------------------------------------
(* SpecInput: the regions of SpecRegion, one surface that takes them as its  *)
(* input region, and Facade calls with ids the Cache does not hold           *)

InputSids == {1}               \* the surfaces SpecInput creates

NextInput ==
    \/ \E rid \in Rids : noia_wayland_create_region(rid)
    \/ \E rid \in Rids, rect \in Rects :
          /\ Len(hist.rects[rid]) < MaxInputRects
          /\ noia_wayland_region_add(rid, rect)
    \/ \E rid \in Rids : noia_wayland_region_destroy(rid)
    \/ \E c \in Clients, sid \in InputSids : noia_wayland_create_surface(c, sid)
    \/ \E resource \in SurfaceRcs, region_resource \in Rids \cup {NULL} :
          noia_wayland_surface_set_input_region(resource, region_resource)
    \/ \E op \in SurfaceIdOps, sid \in Sids, c \in Clients :
          facade_request_unknown_id(op, sid, "SURFACE", SurfaceRc(sid, c),
                                    UnitRect)
    \/ \E op \in RegionIdOps, rid \in Rids :
          facade_request_unknown_id(op, rid, "SURFACE", NULL, UnitRect)

SpecInput == Init /\ [][NextInput]_vars

-----------------------------------------------------------------------------
(* SpecResources: the resources one surface and two clients bind and destroy *)

NextResources ==
    \/ \E c \in Clients, sid \in InputSids : noia_wayland_create_surface(c, sid)
    \/ \E rc \in KeyboardRcs : noia_wayland_keyboard_bind(rc)
    \/ \E rc \in KeyboardRcs : noia_wayland_keyboard_release(rc)
    \/ \E rc \in DataDeviceRcs : noia_wayland_data_device_bind(rc)
    \/ \E rc \in DataDeviceRcs : noia_wayland_data_device_unbind(rc)
    \/ \E rc \in XdgPopupRcs : noia_wayland_xdg_popup_bind(rc)
    \/ \E rc \in XdgPopupRcs : noia_wayland_xdg_popup_unbind(rc)
    \/ \E rc \in XdgSurfaceRcs : noia_wayland_xdg_surface_bind(rc)
    \/ \E rc \in XdgSurfaceRcs : noia_wayland_xdg_surface_unbind(rc)

SpecResources == Init /\ [][NextResources]_vars

-----------------------------------------------------------------------------
(* SpecKeys: two clients and their keyboards, their surfaces, the keyboard   *)
(* focus, and the keys the Coordinator reports                               *)

\* the keyboards bound in SpecKeys: two of client 1, one of client 2
KeysKeyboardRcs == {KeyboardRc(1, 1), KeyboardRc(1, 2), KeyboardRc(2, 1)}

NextKeys ==
    \/ \E c \in Clients, sid \in Sids : noia_wayland_create_surface(c, sid)
    \/ \E rc \in SurfaceRcs : noia_wayland_surface_unbind(rc)
    \/ \E rc \in KeysKeyboardRcs : noia_wayland_keyboard_bind(rc)
    \/ \E new_sid \in Sids \cup {scInvalidSurfaceId} :
          noia_wayland_gateway_keyboard_focus_update(coord.kfocus, OneSize, {},
                                                     new_sid)
    \/ \E key \in Keys, old_mods \in KeyMods, new_mods \in KeyMods :
          noia_wayland_gateway_key_call(key, old_mods, new_mods)

SpecKeys == Init /\ [][NextKeys]_vars

-----------------------------------------------------------------------------
(* SpecPointer: two clients with their surfaces and pointers, the pointer    *)
(* focus, and the motions the Coordinator reports                            *)

Positions == [x : {1}, y : {2}]
Milliseconds == {5}

NextPointer ==
    \/ \E c \in Clients, sid \in Sids : noia_wayland_create_surface(c, sid)
    \/ \E rc \in PointerRcs : noia_wayland_pointer_bind(rc)
    \/ \E rc \in PointerRcs : noia_wayland_pointer_release(rc)
    \/ \E new_sid \in Sids \cup {scInvalidSurfaceId} :
          noia_wayland_gateway_pointer_focus_update(new_sid)
    \/ \E sid \in Sids, pos \in Positions, milliseconds \in Milliseconds :
          noia_wayland_gateway_pointer_motion(sid, pos, milliseconds)

SpecPointer == Init /\ [][NextPointer]_vars

-----------------------------------------------------------------------------
(* SpecConfigure: the surfaces of one client with their wl_shell_surface and *)
(* xdg_surface objects, the keyboard focus, and the reconfigurations the     *)
(* Coordinator reports                                                       *)

ShellSurfaceRc(sid) == 1000 + (10 * sid)
ShellSurfaceRcs == {ShellSurfaceRc(sid) : sid \in Sids}
ReconfiguredSizes == {[width |-> 3, height |-> 4]}
StateFlags == {{}, {"MAXIMIZED"}}

\* wayland-protocol-shell-surface.c:170-187, wayland-facade.c:132-140:
\* wl_shell.get_shell_surface on a wl_surface
noia_wayland_shell_surface_bind(rc) ==
    /\ fault = "none"
    /\ rc \in ShellSurfaceRcs \ live
    /\ \E c \in Clients : SurfaceRc(wl_resource_get_user_data(rc), c) \in live
    /\ surfaces' = noia_wayland_cache_add_surface_resource(
                       surfaces, wl_resource_get_user_data(rc),
                       "SHELL_SURFACE", rc)
    /\ live' = live \cup {rc}
    /\ sent' = <<>>
    /\ hist' = Recorded(hist, <<>>, "add_shell_surface", 0,
                        wl_resource_get_user_data(rc))
    /\ UNCHANGED <<chain, engine, NotFocus, general_resource, keyboard_focused_sid,
                   pointer_focused_sid, coord>>

\* wayland-protocol-shell-surface.c:13-19, wayland-facade.c:98-106
noia_wayland_shell_surface_unbind(rc) ==
    /\ fault = "none"
    /\ rc \in live \cap ShellSurfaceRcs
    /\ noia_wayland_cache_find_surface(surfaces, wl_resource_get_user_data(rc))
    /\ surfaces' = noia_wayland_cache_remove_surface_resource(
                       surfaces, wl_resource_get_user_data(rc),
                       "SHELL_SURFACE", rc)
    /\ live' = live \ {rc}
    /\ sent' = <<>>
    /\ hist' = Recorded(hist, <<>>, "remove_surface_resource", 0,
                        wl_resource_get_user_data(rc))
    /\ UNCHANGED <<chain, engine, NotFocus, general_resource, keyboard_focused_sid,
                   pointer_focused_sid, coord>>

\* wayland-gateway.c:369-420, from entry to return; hist.call keeps the flags
\* as the bit mask of the call (NOIA_SURFACE_STATE_MAXIMIZED is 0x1)
noia_wayland_gateway_surface_reconfigured(sid, size, state_flags) ==
    /\ fault = "none"
    /\ sent' = SurfaceReconfiguredEvents(surfaces, keyboard_focused_sid, sid,
                                         size, state_flags, 0)
    /\ hist' = Recorded(hist, sent', "surface_reconfigured",
                        IF "MAXIMIZED" \in state_flags THEN 1 ELSE 0, sid)
    /\ coord' = NoCalls
    /\ UNCHANGED <<chain, engine, NotFocus, surfaces, general_resource,
                   keyboard_focused_sid, pointer_focused_sid, live>>

NextConfigure ==
    \/ \E sid \in Sids : noia_wayland_create_surface(1, sid)
    \/ \E sid \in Sids : noia_wayland_xdg_surface_bind(XdgSurfaceRc(sid, 1))
    \/ \E sid \in Sids :
          /\ noia_wayland_cache_find_surface(surfaces, sid)
          /\ noia_wayland_xdg_surface_unbind(XdgSurfaceRc(sid, 1))
    \/ \E rc \in ShellSurfaceRcs : noia_wayland_shell_surface_bind(rc)
    \/ \E rc \in ShellSurfaceRcs : noia_wayland_shell_surface_unbind(rc)
    \/ \E new_sid \in Sids \cup {scInvalidSurfaceId} :
          noia_wayland_gateway_keyboard_focus_update(coord.kfocus, OneSize, {},
                                                     new_sid)
    \/ \E sid \in Sids, size \in ReconfiguredSizes, state_flags \in StateFlags :
          noia_wayland_gateway_surface_reconfigured(sid, size, state_flags)

SpecConfigure == Init /\ [][NextConfigure]_vars

-----------------------------------------------------------------------------
(* SpecEngine: the engine from noia_wayland_engine_new on: initialization    *)
(* with a display, a socket and a thread that can each fail, the frontend    *)
(* thread entering and leaving wl_display_run, stop and finalize called by   *)
(* the embedding program, and requests served while the thread dispatches    *)

NotEngine == <<surfaces, regions, general_resource, mutex, keyboard_focused_sid,
               pointer_focused_sid, current_transfer, transfers, live, pc, loc,
               chain>>

\* an initialization that ignores what wl_display_add_socket returned
engine_initialize_ignores_socket(self, display_ok, socket_ok) ==
    IF display_ok
    THEN [self EXCEPT !.display = "created", !.src = TRUE,
                      !.socket = socket_ok, !.result = "success"]
    ELSE [self EXCEPT !.result = "error"]

\* wayland-engine.c:89-116; display_ok and socket_ok say whether
\* wl_display_create and wl_display_add_socket succeed
noia_wayland_engine_initialize(self, display_ok, socket_ok) ==
    IF display_ok
    THEN [self EXCEPT !.display = "created", !.src = TRUE,
                      !.socket = socket_ok,
                      !.result = IF socket_ok THEN "success" ELSE "error"]
    ELSE [self EXCEPT !.result = "error"]

\* wayland-engine.c:136-186; thread_ok says whether pthread_create succeeds
noia_wayland_engine_start(self, thread_ok) ==
    IF thread_ok
    THEN [self EXCEPT !.globals = Globals, !.thread = "created",
                      !.running = TRUE, !.result = "success"]
    ELSE [self EXCEPT !.globals = Globals, !.result = "error"]

\* wayland-context.c:20-35
noia_wayland_context_initialize(self, display_ok, socket_ok, thread_ok) ==
    LET initialized == noia_wayland_engine_initialize(self, display_ok, socket_ok)
    IN IF initialized.result = "success"
       THEN noia_wayland_engine_start(initialized, thread_ok)
       ELSE initialized

\* a stop that does not look at self->running
engine_stop_unguarded(self) ==
    [self EXCEPT !.run = FALSE, !.terminates = @ + 1, !.caller = "joining"]

\* wayland-engine.c:190-195, up to the point where pthread_join blocks;
\* wl_display_terminate clears wl_display.run
noia_wayland_engine_stop(self) ==
    IF self.running
    THEN [self EXCEPT !.run = FALSE, !.terminates = @ + 1, !.caller = "joining"]
    ELSE self

\* wayland-engine.c:120-132; wl_display_destroy takes the socket and the
\* globals with it
noia_wayland_engine_finalize(self) ==
    [self EXCEPT !.display = "null", !.src = FALSE, !.socket = FALSE,
                 !.globals = IF self.display = "created" THEN {} ELSE @]

\* wayland-module.c:160-173: noia_wayland_initialize, which finalizes the
\* context itself when the initialization failed
noia_wayland_initialize(display_ok, socket_ok, thread_ok) ==
    /\ fault = "none"
    /\ engine.result = "none"
    /\ engine.caller = "idle"
    /\ LET initialized == noia_wayland_context_initialize(
                              engine, display_ok, socket_ok, thread_ok)
       IN engine' = IF initialized.result # "success"
                    THEN noia_wayland_engine_finalize(
                             noia_wayland_engine_stop(initialized))
                    ELSE initialized
    /\ hist' = Recorded(hist, <<>>, "initialize",
                        IF display_ok THEN 1 ELSE 0, IF socket_ok THEN 1 ELSE 0)
    /\ coord' = NoCalls
    /\ sent' = <<>>
    /\ UNCHANGED <<NotEngine, fault>>

\* wayland-engine.c:44-52: the new thread enters wl_display_run, which sets
\* wl_display.run
noia_wayland_engine_run ==
    /\ fault = "none"
    /\ engine.thread = "created"
    /\ engine' = [engine EXCEPT !.thread = "looping", !.run = TRUE]
    /\ UNCHANGED <<NotEngine, fault, coord, sent, hist>>

\* wl_display_run finds wl_display.run cleared and returns; the thread ends
wl_display_run_returns ==
    /\ fault = "none"
    /\ engine.thread = "looping"
    /\ ~engine.run
    /\ engine' = [engine EXCEPT !.thread = "exited"]
    /\ UNCHANGED <<NotEngine, fault, coord, sent, hist>>

\* wayland-engine.c:190-199 called on its own (finalize = FALSE) or as the
\* first statement of noia_wayland_context_finalize (wayland-context.c:39-48),
\* up to its return or to the point where pthread_join blocks
noia_wayland_engine_stop_call(finalize) ==
    /\ fault = "none"
    /\ engine.caller = "idle"
    /\ LET stopped == noia_wayland_engine_stop(engine)
       IN engine' = IF stopped.caller = "joining"
                    THEN [stopped EXCEPT !.caller =
                            IF finalize THEN "joining_finalize" ELSE "joining"]
                    ELSE IF finalize THEN noia_wayland_engine_finalize(stopped)
                    ELSE stopped
    /\ hist' = Recorded(hist, <<>>, "engine_stop",
                        IF engine.running THEN 1 ELSE 0,
                        IF finalize THEN 1 ELSE 0)
    /\ coord' = NoCalls
    /\ sent' = <<>>
    /\ UNCHANGED <<NotEngine, fault>>

\* wayland-engine.c:195-198: pthread_join returns once the thread has ended,
\* and the caller goes on
noia_wayland_engine_stop_return ==
    /\ fault = "none"
    /\ engine.caller \in {"joining", "joining_finalize"}
    /\ engine.thread = "exited"
    /\ LET joined == [engine EXCEPT !.thread = "joined", !.joins = @ + 1,
                                    !.running = FALSE, !.caller = "idle"]
       IN engine' = IF engine.caller = "joining_finalize"
                    THEN noia_wayland_engine_finalize(joined)
                    ELSE joined
    /\ hist' = Recorded(hist, <<>>, "engine_stop_return", 0, 0)
    /\ coord' = NoCalls
    /\ sent' = <<>>
    /\ UNCHANGED <<NotEngine, fault>>

NextEngine ==
    \/ \E display_ok \in BOOLEAN, socket_ok \in BOOLEAN, thread_ok \in BOOLEAN :
          noia_wayland_initialize(display_ok, socket_ok, thread_ok)
    \/ noia_wayland_engine_run
    \/ wl_display_run_returns
    \/ \E finalize \in BOOLEAN : noia_wayland_engine_stop_call(finalize)
    \/ noia_wayland_engine_stop_return
    \/ \E c \in Clients, sid \in Sids :
          engine.thread = "looping" /\ noia_wayland_create_surface(c, sid)
    \/ \E rc \in SurfaceRcs :
          engine.thread = "looping" /\ noia_wayland_surface_unbind(rc)

InitEngine == InitFrontend /\ engine = noia_wayland_engine_new

SpecEngine == InitEngine /\ [][NextEngine]_vars

-----------------------------------------------------------------------------
(* SpecScene: one client that makes surfaces subsurfaces of one parent and   *)
(* restacks them                                                             *)

SceneSids == 1..4
\* the surface the others become subsurfaces of: the last one created
ParentSid == CHOOSE sid \in SceneSids : \A other \in SceneSids : other <= sid
SceneSurfaceRcs == {SurfaceRc(sid, 1) : sid \in SceneSids}
SubsurfaceRcs == {SubsurfaceRc(sid) : sid \in SceneSids}

\* the children the Coordinator keeps for a surface, bottom first
Satellites(satellites, parent_sid) ==
    IF parent_sid \in DOMAIN satellites THEN satellites[parent_sid] ELSE <<>>

\* noia_surface_relate of the Coordinator: sid becomes the last child of
\* parent_sid
noia_surface_relate(satellites, sid, parent_sid) ==
    [p \in DOMAIN satellites \cup {parent_sid} |->
       IF p = parent_sid
       THEN Append(Satellites(satellites, parent_sid), sid)
       ELSE satellites[p]]

\* wayland-facade.c:184-216: the body is commented out behind a FIXME, the
\* function returns without touching the Coordinator
noia_wayland_facade_reorder_satellites(satellites, sid, sibling_sid, above) ==
    satellites

\* wayland-protocol-subcompositor.c:34-53, wayland-protocol-subsurface.c:108-124,
\* wayland-facade.c:144-150
noia_wayland_subcompositor_get_subsurface(surface_resource, parent_resource) ==
    /\ fault = "none"
    /\ surface_resource \in live
    /\ parent_resource \in live
    /\ LET sid == wl_resource_get_user_data(surface_resource)
           parent_sid == wl_resource_get_user_data(parent_resource)
       IN /\ sid # parent_sid
          /\ SubsurfaceRc(sid) \notin live
          /\ live' = live \cup {SubsurfaceRc(sid)}
          /\ coord' = [coord EXCEPT
                         !.satellites = noia_surface_relate(@, sid, parent_sid),
                         !.calls = <<Call("surface_relate", sid, parent_sid, 0),
                                     Call("surface_set_relative_position",
                                          sid, 0, 0)>>]
          /\ hist' = Recorded(hist, <<>>, "add_subsurface", parent_sid, sid)
    /\ sent' = <<>>
    /\ UNCHANGED <<chain, engine, NotFocus, surfaces, general_resource, keyboard_focused_sid,
                   pointer_focused_sid>>

\* wayland-protocol-subsurface.c:45-58
noia_wayland_subsurface_place_above(resource, sibling_resource) ==
    /\ fault = "none"
    /\ resource \in live \cap SubsurfaceRcs
    /\ sibling_resource \in live \cap SceneSurfaceRcs
    /\ LET sid == wl_resource_get_user_data(resource)
           sibling_sid == wl_resource_get_user_data(sibling_resource)
       IN /\ coord' = [coord EXCEPT
                         !.satellites = noia_wayland_facade_reorder_satellites(
                                            @, sid, sibling_sid, TRUE),
                         !.calls = <<>>]
          /\ hist' = Recorded(hist, <<>>, "place_above", sibling_sid, sid)
    /\ sent' = <<>>
    /\ UNCHANGED <<chain, engine, NotFocus, surfaces, general_resource, keyboard_focused_sid,
                   pointer_focused_sid, live>>

\* wayland-protocol-subsurface.c:61-74
noia_wayland_subsurface_place_below(resource, sibling_resource) ==
    /\ fault = "none"
    /\ resource \in live \cap SubsurfaceRcs
    /\ sibling_resource \in live \cap SceneSurfaceRcs
    /\ LET sid == wl_resource_get_user_data(resource)
           sibling_sid == wl_resource_get_user_data(sibling_resource)
       IN /\ coord' = [coord EXCEPT
                         !.satellites = noia_wayland_facade_reorder_satellites(
                                            @, sid, sibling_sid, FALSE),
                         !.calls = <<>>]
          /\ hist' = Recorded(hist, <<>>, "place_below", sibling_sid, sid)
    /\ sent' = <<>>
    /\ UNCHANGED <<chain, engine, NotFocus, surfaces, general_resource, keyboard_focused_sid,
                   pointer_focused_sid, live>>

NextScene ==
    \/ \E sid \in SceneSids : noia_wayland_create_surface(1, sid)
    \/ \E surface_resource \in SceneSurfaceRcs :
          noia_wayland_subcompositor_get_subsurface(surface_resource,
                                                    SurfaceRc(ParentSid, 1))
    \/ \E resource \in SubsurfaceRcs, sibling_resource \in SceneSurfaceRcs :
          noia_wayland_subsurface_place_above(resource, sibling_resource)
    \/ \E resource \in SubsurfaceRcs, sibling_resource \in SceneSurfaceRcs :
          noia_wayland_subsurface_place_below(resource, sibling_resource)

SpecScene == Init /\ [][NextScene]_vars

-----------------------------------------------------------------------------
(* SpecSurface: the surfaces of one client with their buffers and frame      *)
(* callbacks, and the screen refreshes the Coordinator reports               *)

NextSurface ==
    \/ \E c \in {1}, sid \in Sids : noia_wayland_create_surface(c, sid)
    \/ \E resource \in SurfaceRcs, buffer_resource \in BufferRcs \cup {NULL} :
          noia_wayland_surface_attach(resource, buffer_resource)
    \/ \E resource \in SurfaceRcs : noia_wayland_surface_commit(resource)
    \/ \E resource \in SurfaceRcs, callback \in FrameRcs :
          noia_wayland_surface_frame(resource, callback)
    \/ \E sid \in Sids, milliseconds \in Milliseconds :
          noia_wayland_gateway_screen_refresh(sid, milliseconds)
    \/ \E resource \in FrameRcs : noia_wayland_surface_frame_unbind(resource)

SpecSurface == Init /\ [][NextSurface]_vars

-----------------------------------------------------------------------------
(* Spec: the frontend thread and two coordinator threads, one step per       *)
(* critical section of the cache mutex and per access to the cache made      *)
(* outside of one.  The interleavings are explored on one surface of one     *)
(* client.  A step whose behaviour is undefined (a freed link freed again, a *)
(* list read while another thread rewrites it, an event sent on a destroyed  *)
(* resource) sets `fault`, after which no step is taken.                     *)

RaceSids == {1}
RaceClients == {1}

\* wayland-cache.c:93-97 pthread_mutex_lock returns with the caller as owner
noia_wayland_cache_lock(t) == t

\* pthread_mutex_unlock that leaves the caller as owner
unlock_keeps_owner(t) == t

\* wayland-cache.c:101-105
noia_wayland_cache_unlock(t) == NoThread

NotSpec == <<regions, pointer_focused_sid, current_transfer, transfers>>

AcquirePcs == {"sr_destroy", "kfu_sel_lock", "kfu_rc1_lock", "kfu_rc2_lock"}
SectionPcs == {"fe_cs", "sr_cs", "sr_unbind_cs", "kfu_cs", "kfu_sel_cs",
               "kfu_rc1_cs", "kfu_rc2_cs"}
\* positions of screen_refresh after its unlock (wayland-gateway.c:41-46)
NotifyPcs == {"sr_loop", "sr_pop", "sr_pop_w"}

FrontendOps == {"add_surface", "surface_frame", "surface_attach", "frame_unbind"}

\* a request handler on the frontend thread, up to the return of
\* noia_wayland_cache_lock in the Facade function it calls:
\*   add_surface   wayland-protocol-compositor.c:25-32, wayland-facade.c:121-123
\*   surface_frame wayland-protocol-surface.c:91-107, wayland-facade.c:75-80
\*   surface_attach wayland-protocol-surface.c:46-72, wayland-facade.c:154-162
\*   frame_unbind  wayland-protocol-surface.c:24-30, wayland-facade.c:98-103
\*   add_keyboard_resource wayland-protocol-keyboard.c:37-52,
\*                 wayland-facade.c:266-268
frontend_request(op, sid, rc) ==
    /\ fault = "none"
    /\ pc["fe"] = "idle"
    /\ mutex = NoThread
    /\ CASE op = "add_surface" ->
              /\ sid \notin coord.surfaces \cup {coord.kfocus}
              /\ rc = SurfaceRc(sid, CHOOSE c \in RaceClients : TRUE)
              /\ coord' = [coord EXCEPT !.surfaces = @ \cup {sid}]
              /\ live' = live \cup {rc}
              /\ hist' = hist
         [] op = "surface_frame" ->
              /\ \E c \in RaceClients : SurfaceRc(sid, c) \in live
              /\ rc \in FrameRcs \ live
              /\ wl_resource_get_user_data(rc) = sid
              /\ live' = live \cup {rc}
              /\ hist' = [hist EXCEPT !.done[rc] = 0]
              /\ coord' = coord
         [] op = "surface_attach" ->
              /\ \E c \in RaceClients : SurfaceRc(sid, c) \in live
              /\ rc \in BufferRcs
              /\ UNCHANGED <<chain, engine, coord, live, hist>>
         [] op = "frame_unbind" ->
              /\ rc \in live \cap FrameRcs
              /\ sid = wl_resource_get_user_data(rc)
              /\ UNCHANGED <<chain, engine, coord, live, hist>>
         [] op = "add_keyboard_resource" ->
              /\ rc \in KeyboardRcs \ live
              /\ live' = live \cup {rc}
              /\ UNCHANGED <<chain, engine, coord, hist>>
    /\ mutex' = noia_wayland_cache_lock("fe")
    /\ pc' = [pc EXCEPT !["fe"] = "fe_cs"]
    /\ loc' = [loc EXCEPT !["fe"] = [NoLocals EXCEPT !.op = op, !.sid = sid,
                                                     !.rc = rc]]
    /\ sent' = <<>>
    /\ UNCHANGED <<chain, engine, NotSpec, surfaces, general_resource, keyboard_focused_sid,
                   fault>>

\* the critical section of the Facade function and its unlock:
\* wayland-facade.c:124-127, 81-82, 163-166, 104-105, 270-287; the events of
\* a section are sent before its unlock
frontend_section ==
    /\ fault = "none"
    /\ pc["fe"] = "fe_cs"
    /\ LET op == loc["fe"].op
           sid == loc["fe"].sid
           rc == loc["fe"].rc
       IN CASE op = "add_surface" ->
                 /\ surfaces' = noia_wayland_cache_add_surface_resource(
                                    noia_wayland_cache_create_surface(surfaces, sid),
                                    sid, "SURFACE", rc)
                 /\ UNCHANGED <<chain, engine, live, fault>>
            [] op = "surface_frame" ->
                 /\ surfaces' = noia_wayland_cache_add_surface_resource(
                                    surfaces, sid, "FRAME", rc)
                 /\ UNCHANGED <<chain, engine, live, fault>>
            [] op = "surface_attach" ->
                 /\ surfaces' = noia_wayland_cache_add_surface_resource(
                                    surfaces, sid, "BUFFER", rc)
                 /\ UNCHANGED <<chain, engine, live, fault>>
            [] op = "frame_unbind" ->
                 IF /\ noia_wayland_cache_find_surface(surfaces, sid)
                    /\ SurfaceRemoveTouchesFreedLink(surfaces[sid], "FRAME", rc)
                 THEN /\ fault' = "freed_link"
                      /\ UNCHANGED <<chain, engine, surfaces, live>>
                 ELSE /\ surfaces' = noia_wayland_cache_remove_surface_resource(
                                         surfaces, sid, "FRAME", rc)
                      /\ live' = live \ {rc}
                      /\ fault' = fault
            [] op = "add_keyboard_resource" ->
                 UNCHANGED <<chain, engine, surfaces, live, fault>>
    /\ general_resource' =
           IF loc["fe"].op = "add_keyboard_resource"
           THEN noia_wayland_cache_add_general_resource(
                    general_resource, "KEYBOARD", loc["fe"].rc)
           ELSE general_resource
    /\ sent' = IF loc["fe"].op = "add_keyboard_resource"
               THEN AddKeyboardResourceEvents(surfaces, keyboard_focused_sid,
                                              loc["fe"].rc)
               ELSE <<>>
    /\ mutex' = IF fault' = "none" THEN noia_wayland_cache_unlock("fe") ELSE mutex
    /\ pc' = IF fault' = "none" THEN [pc EXCEPT !["fe"] = "idle"] ELSE pc
    /\ loc' = IF fault' = "none" THEN [loc EXCEPT !["fe"] = NoLocals] ELSE loc
    /\ UNCHANGED <<chain, engine, NotSpec, keyboard_focused_sid, coord, hist>>

\* wayland-gateway.c:17-22: the call, up to the return of the lock
screen_refresh_lock(t, sid) ==
    /\ fault = "none"
    /\ pc[t] = "idle"
    /\ sid \in coord.surfaces
    /\ mutex = NoThread
    /\ mutex' = noia_wayland_cache_lock(t)
    /\ pc' = [pc EXCEPT ![t] = "sr_cs"]
    /\ loc' = [loc EXCEPT ![t] = [NoLocals EXCEPT !.op = "screen_refresh",
                                                  !.sid = sid]]
    /\ sent' = <<>>
    /\ UNCHANGED <<chain, engine, NotSpec, surfaces, general_resource, keyboard_focused_sid,
                   live, fault, coord, hist>>

\* wayland-gateway.c:23-38: take the pointer frcs to the frame list of the
\* surface record (NULL when there is no record), release the buffer if
\* needed, unlock
screen_refresh_section(t) ==
    /\ fault = "none"
    /\ pc[t] = "sr_cs"
    /\ surfaces' = ScreenRefreshSurfaces(surfaces, loc[t].sid)
    /\ sent' = ScreenRefreshEvents(surfaces, loc[t].sid)
    /\ mutex' = noia_wayland_cache_unlock(t)
    /\ pc' = [pc EXCEPT ![t] = "sr_loop"]
    /\ loc' = [loc EXCEPT ![t].frcs =
                  IF noia_wayland_cache_find_surface(surfaces, loc[t].sid)
                  THEN "list" ELSE "null"]
    /\ UNCHANGED <<chain, engine, NotSpec, general_resource, keyboard_focused_sid, live,
                   fault, coord, hist>>

\* the frame list a screen_refresh holds the pointer frcs to; a NULL frcs
\* reads as the empty list (utils-list.c noia_list_len)
FrameList(t) ==
    IF /\ loc[t].frcs = "list"
       /\ noia_wayland_cache_find_surface(surfaces, loc[t].sid)
    THEN surfaces[loc[t].sid].frame_resources
    ELSE <<>>

\* wayland-gateway.c:41: while (noia_list_len(frcs) > 0)
\* frcs points into a surface record that noia_wayland_surface_free has
\* freed (wayland-surface.c:38-50): the read is undefined
screen_refresh_len(t) ==
    /\ fault = "none"
    /\ pc[t] = "sr_loop"
    /\ IF loc[t].frcs = "freed"
       THEN /\ fault' = "freed_surface"
            /\ UNCHANGED <<pc, loc>>
       ELSE IF Len(FrameList(t)) > 0
       THEN /\ pc' = [pc EXCEPT ![t] = "sr_pop"]
            /\ loc' = loc
            /\ fault' = fault
       ELSE /\ pc' = [pc EXCEPT ![t] = "idle"]
            /\ loc' = [loc EXCEPT ![t] = NoLocals]
            /\ fault' = fault
    /\ sent' = <<>>
    /\ UNCHANGED <<chain, engine, NotSpec, surfaces, general_resource, mutex,
                   keyboard_focused_sid, live, coord, hist>>

\* utils-list.c:65-70: noia_list_pop reads len, first->data and first->next.
\* On an empty list it returns NULL, which wl_callback_send_done dereferences
\* (wayland-gateway.c:43-44).
screen_refresh_pop_read(t) ==
    /\ fault = "none"
    /\ pc[t] = "sr_pop"
    /\ IF loc[t].frcs = "freed"
       THEN /\ fault' = "freed_surface"
            /\ UNCHANGED <<pc, loc>>
       ELSE IF FrameList(t) = <<>>
       THEN /\ fault' = "null_callback"
            /\ UNCHANGED <<chain, engine, pc, loc>>
       ELSE /\ pc' = [pc EXCEPT ![t] = "sr_pop_w"]
            /\ loc' = [loc EXCEPT ![t].rc = Head(FrameList(t)),
                                  ![t].next = Tail(FrameList(t))]
            /\ fault' = fault
    /\ sent' = <<>>
    /\ UNCHANGED <<chain, engine, NotSpec, surfaces, general_resource, mutex,
                   keyboard_focused_sid, live, coord, hist>>

\* utils-list.c:71-78: noia_list_pop frees the first link, stores first and
\* len, leaving the new first link's prev in place; then
\* wayland-gateway.c:44 wl_callback_send_done.
\* When the list is no longer the one pop read, the link is freed a second
\* time or the stores overwrite another thread's: the call aborts there, or
\* goes on to send the event and leaves a corrupt list behind.
screen_refresh_pop_write(t) ==
    /\ fault = "none"
    /\ pc[t] = "sr_pop_w"
    /\ LET rc == loc[t].rc
           sid == loc[t].sid
           cur == FrameList(t)
           \* the list pop read, or that list with links appended behind a
           \* second link: the stores of pop then still take the first link
           intact == /\ cur # <<>>
                     /\ Head(cur) = rc
                     /\ \/ Tail(cur) = loc[t].next
                        \/ /\ loc[t].next # <<>>
                           /\ Len(Tail(cur)) > Len(loc[t].next)
                           /\ SubSeq(Tail(cur), 1, Len(loc[t].next)) = loc[t].next
           done == /\ sent' = <<Ev("callback.done", rc, NULL, 0)>>
                   /\ hist' = [hist EXCEPT !.done[rc] = @ + 1]
       IN IF intact /\ rc \in live
          THEN /\ surfaces' =
                    [surfaces EXCEPT
                       ![sid].frame_resources = Tail(cur),
                       ![sid].frame_head_prev =
                           IF Tail(cur) = <<>> THEN "null" ELSE "freed"]
               /\ done
               /\ pc' = [pc EXCEPT ![t] = "sr_destroy"]
               /\ fault' = fault
          ELSE /\ \/ /\ rc \in live
                     /\ done
                  \/ /\ sent' = <<>>
                     /\ hist' = hist
               /\ fault' = IF loc[t].frcs = "freed" THEN "freed_surface"
                           ELSE IF rc \in live THEN "frame_list_race"
                           ELSE "freed_callback"
               /\ UNCHANGED <<chain, engine, surfaces, pc>>
    /\ UNCHANGED <<chain, engine, NotSpec, general_resource, mutex, keyboard_focused_sid,
                   live, loc, coord>>

\* wayland-gateway.c:45 wl_resource_destroy -> wayland-protocol-surface.c:24-30
\* noia_wayland_surface_frame_unbind -> wayland-facade.c:98-103, up to the
\* return of the lock
frame_unbind_lock(t) ==
    /\ fault = "none"
    /\ pc[t] = "sr_destroy"
    /\ mutex = NoThread
    /\ mutex' = noia_wayland_cache_lock(t)
    /\ pc' = [pc EXCEPT ![t] = "sr_unbind_cs"]
    /\ sent' = <<>>
    /\ UNCHANGED <<chain, engine, NotSpec, surfaces, general_resource, keyboard_focused_sid,
                   live, loc, fault, coord, hist>>

\* wayland-facade.c:104-105, then wl_resource_destroy frees the resource
frame_unbind_section(t) ==
    /\ fault = "none"
    /\ pc[t] = "sr_unbind_cs"
    /\ LET rc == loc[t].rc
           sid == loc[t].sid
       IN IF rc \notin live
          THEN /\ fault' = "freed_callback"
               /\ UNCHANGED <<chain, engine, surfaces, live, mutex, pc, loc>>
          ELSE IF /\ noia_wayland_cache_find_surface(surfaces, sid)
                  /\ SurfaceRemoveTouchesFreedLink(surfaces[sid], "FRAME", rc)
          THEN /\ fault' = "freed_link"
               /\ UNCHANGED <<chain, engine, surfaces, live, mutex, pc, loc>>
          ELSE /\ surfaces' = noia_wayland_cache_remove_surface_resource(
                                  surfaces, sid, "FRAME", rc)
               /\ live' = live \ {rc}
               /\ mutex' = noia_wayland_cache_unlock(t)
               /\ pc' = [pc EXCEPT ![t] = "sr_loop"]
               /\ loc' = [loc EXCEPT ![t].rc = 0, ![t].next = <<>>]
               /\ fault' = fault
    /\ sent' = <<>>
    /\ UNCHANGED <<chain, engine, NotSpec, general_resource, keyboard_focused_sid, coord, hist>>

\* wayland-protocol-surface.c:14-19 noia_wayland_surface_unbind on the
\* frontend thread -> wayland-facade.c:171-174, up to the return of the lock
remove_surface_lock(rc) ==
    /\ fault = "none"
    /\ pc["fe"] = "idle"
    /\ rc \in live \cap SurfaceRcs
    /\ mutex = NoThread
    /\ mutex' = noia_wayland_cache_lock("fe")
    /\ pc' = [pc EXCEPT !["fe"] = "rs_cs"]
    /\ loc' = [loc EXCEPT !["fe"] =
                  [NoLocals EXCEPT !.op = "remove_surface", !.rc = rc,
                                   !.sid = wl_resource_get_user_data(rc)]]
    /\ sent' = <<>>
    /\ UNCHANGED <<chain, engine, NotSpec, surfaces, general_resource, keyboard_focused_sid,
                   live, fault, coord, hist>>

\* wayland-facade.c:175-179: noia_surface_destroy, the surface slot cleared,
\* the record deleted from the store and freed with its frame list
\* (wayland-cache.c:120-127, wayland-surface.c:38-50), unlock; then
\* wl_resource_destroy frees the wl_surface.  Every frcs that points into
\* the record dangles from here on.
remove_surface_section ==
    /\ fault = "none"
    /\ pc["fe"] = "rs_cs"
    /\ LET rc == loc["fe"].rc
           sid == loc["fe"].sid
       IN /\ coord' = [coord EXCEPT !.surfaces = @ \ {sid}]
          /\ surfaces' = noia_wayland_cache_remove_surface(
                             noia_wayland_cache_remove_surface_resource(
                                 surfaces, sid, "SURFACE", rc),
                             sid)
          /\ live' = live \ {rc}
          /\ loc' = [t \in Threads |->
                       IF t = "fe" THEN NoLocals
                       ELSE IF /\ loc[t].sid = sid
                               /\ loc[t].frcs = "list"
                               /\ noia_wayland_cache_find_surface(surfaces, sid)
                       THEN [loc[t] EXCEPT !.frcs = "freed"]
                       ELSE loc[t]]
          /\ hist' = [Recorded(hist, <<>>, "remove_surface", 0, sid)
                        EXCEPT !.live_sids = @ \ {sid}]
    /\ mutex' = noia_wayland_cache_unlock("fe")
    /\ pc' = [pc EXCEPT !["fe"] = "idle"]
    /\ sent' = <<>>
    /\ UNCHANGED <<chain, engine, NotSpec, general_resource, keyboard_focused_sid, fault>>

\* wayland-gateway.c:95-106: the call, up to the return of the lock
keyboard_focus_update_lock(t, new_sid) ==
    /\ fault = "none"
    /\ pc[t] = "idle"
    /\ \A u \in Threads : loc[u].op # "keyboard_focus_update"
    /\ new_sid \in (coord.surfaces \cup {scInvalidSurfaceId}) \ {coord.kfocus}
    /\ mutex = NoThread
    /\ mutex' = noia_wayland_cache_lock(t)
    /\ pc' = [pc EXCEPT ![t] = "kfu_cs"]
    /\ loc' = [loc EXCEPT ![t] = [NoLocals EXCEPT !.op = "keyboard_focus_update",
                                                  !.old = coord.kfocus,
                                                  !.new = new_sid]]
    /\ coord' = [coord EXCEPT !.kfocus = new_sid]
    /\ sent' = <<>>
    /\ UNCHANGED <<chain, engine, NotSpec, surfaces, general_resource, keyboard_focused_sid,
                   live, fault, hist>>

\* wayland-gateway.c:108-143
keyboard_focus_update_section(t) ==
    /\ fault = "none"
    /\ pc[t] = "kfu_cs"
    /\ sent' = KeyboardFocusEvents(surfaces, general_resource,
                                   loc[t].old, loc[t].new)
    /\ keyboard_focused_sid' = KeyboardFocusSid(surfaces, keyboard_focused_sid,
                                                loc[t].old, loc[t].new)
    /\ mutex' = noia_wayland_cache_unlock(t)
    /\ pc' = [pc EXCEPT ![t] =
                IF KeyboardFocusClientsDiffer(surfaces, loc[t].old, loc[t].new)
                THEN "kfu_sel_lock" ELSE "kfu_rc1_lock"]
    /\ UNCHANGED <<chain, engine, NotSpec, surfaces, general_resource, live, loc, fault, coord,
                   hist>>

\* noia_wayland_cache_lock at wayland-gateway.c:54 (send_selection) and at
\* wayland-gateway.c:377 (surface_reconfigured)
keyboard_focus_update_relock(t) ==
    /\ fault = "none"
    /\ pc[t] \in {"kfu_sel_lock", "kfu_rc1_lock", "kfu_rc2_lock"}
    /\ mutex = NoThread
    /\ mutex' = noia_wayland_cache_lock(t)
    /\ pc' = [pc EXCEPT ![t] = CASE pc[t] = "kfu_sel_lock" -> "kfu_sel_cs"
                                 [] pc[t] = "kfu_rc1_lock" -> "kfu_rc1_cs"
                                 [] pc[t] = "kfu_rc2_lock" -> "kfu_rc2_cs"]
    /\ sent' = <<>>
    /\ UNCHANGED <<chain, engine, NotSpec, surfaces, general_resource, keyboard_focused_sid,
                   live, loc, fault, coord, hist>>

\* wayland-gateway.c:51-91
send_selection_section(t) ==
    /\ fault = "none"
    /\ pc[t] = "kfu_sel_cs"
    /\ sent' = SendSelectionEvents(surfaces, general_resource,
                                   keyboard_focused_sid, current_transfer,
                                   transfers)
    /\ live' = live \cup SendSelectionOffers(surfaces, general_resource,
                                             keyboard_focused_sid,
                                             current_transfer, transfers)
    /\ mutex' = noia_wayland_cache_unlock(t)
    /\ pc' = [pc EXCEPT ![t] = "kfu_rc1_lock"]
    /\ UNCHANGED <<chain, engine, NotSpec, surfaces, general_resource, keyboard_focused_sid,
                   loc, fault, coord, hist>>

\* wayland-gateway.c:369-420, called for old_sid and then for new_sid
\* (wayland-gateway.c:146-149)
surface_reconfigured_section(t) ==
    /\ fault = "none"
    /\ pc[t] \in {"kfu_rc1_cs", "kfu_rc2_cs"}
    /\ sent' = SurfaceReconfiguredEvents(
                   surfaces, keyboard_focused_sid,
                   IF pc[t] = "kfu_rc1_cs" THEN loc[t].old ELSE loc[t].new,
                   OneSize, {}, 0)
    /\ mutex' = noia_wayland_cache_unlock(t)
    /\ pc' = [pc EXCEPT ![t] = IF pc[t] = "kfu_rc1_cs" THEN "kfu_rc2_lock"
                               ELSE "idle"]
    /\ loc' = [loc EXCEPT ![t] = IF pc[t] = "kfu_rc1_cs" THEN @ ELSE NoLocals]
    /\ UNCHANGED <<chain, engine, NotSpec, surfaces, general_resource, keyboard_focused_sid,
                   live, fault, coord, hist>>

Next ==
    \/ \E op \in FrontendOps, sid \in RaceSids,
          rc \in SurfaceRcs \cup FrameRcs \cup BufferRcs :
          frontend_request(op, sid, rc)
    \/ frontend_section
    \/ \E t \in GatewayThreads, sid \in RaceSids : screen_refresh_lock(t, sid)
    \/ \E t \in GatewayThreads : screen_refresh_section(t)
    \/ \E t \in GatewayThreads : screen_refresh_len(t)
    \/ \E t \in GatewayThreads : screen_refresh_pop_read(t)
    \/ \E t \in GatewayThreads : screen_refresh_pop_write(t)
    \/ \E t \in GatewayThreads : frame_unbind_lock(t)
    \/ \E t \in GatewayThreads : frame_unbind_section(t)
    \/ \E t \in GatewayThreads, new_sid \in RaceSids \cup {scInvalidSurfaceId} :
          keyboard_focus_update_lock(t, new_sid)
    \/ \E t \in GatewayThreads : keyboard_focus_update_section(t)
    \/ \E t \in GatewayThreads : keyboard_focus_update_relock(t)
    \/ \E t \in GatewayThreads : send_selection_section(t)
    \/ \E t \in GatewayThreads : surface_reconfigured_section(t)

Spec == Init /\ [][Next]_vars

-----------------------------------------------------------------------------
(* SpecTeardown: the frontend thread creating a surface, requesting frames   *)
(* and destroying the surface while two coordinator threads refresh it       *)

TeardownOps == {"add_surface", "surface_frame"}

NextTeardown ==
    \/ \E op \in TeardownOps, sid \in RaceSids, rc \in SurfaceRcs \cup FrameRcs :
          frontend_request(op, sid, rc)
    \/ frontend_section
    \/ \E rc \in SurfaceRcs : remove_surface_lock(rc)
    \/ remove_surface_section
    \/ \E t \in GatewayThreads, sid \in RaceSids : screen_refresh_lock(t, sid)
    \/ \E t \in GatewayThreads : screen_refresh_section(t)
    \/ \E t \in GatewayThreads : screen_refresh_len(t)
    \/ \E t \in GatewayThreads : screen_refresh_pop_read(t)
    \/ \E t \in GatewayThreads : screen_refresh_pop_write(t)
    \/ \E t \in GatewayThreads : frame_unbind_lock(t)
    \/ \E t \in GatewayThreads : frame_unbind_section(t)

SpecTeardown == Init /\ [][NextTeardown]_vars

-----------------------------------------------------------------------------
(* SpecList: one NoiaList on which up to MaxLinks items are appended and     *)
(* prepended, and items are popped and removed, each call running from      *)
(* entry to return                                                           *)

NotList == <<surfaces, regions, general_resource, mutex, keyboard_focused_sid,
             pointer_focused_sid, current_transfer, transfers, live, pc, loc,
             coord, engine>>

\* utils-list.c:49-56
list_append(data) ==
    /\ fault = "none"
    /\ chain.made < MaxLinks
    /\ chain' = noia_chain_adjoin(noia_link_new(chain, data), chain.made + 1)
    /\ sent' = <<>>
    /\ hist' = Recorded(hist, <<>>, "list_append", data, 0)
    /\ UNCHANGED <<NotList, fault>>

\* utils-list.c:38-45
list_prepend_link(data) ==
    /\ fault = "none"
    /\ chain.made < MaxLinks
    /\ chain' = noia_chain_prejoin(noia_link_new(chain, data), chain.made + 1)
    /\ sent' = <<>>
    /\ hist' = Recorded(hist, <<>>, "list_prepend", data, 0)
    /\ UNCHANGED <<NotList, fault>>

\* utils-list.c:60-79
list_pop ==
    /\ fault = "none"
    /\ chain' = noia_list_pop(chain)
    /\ sent' = <<>>
    /\ hist' = Recorded(hist, <<>>, "list_pop", 0, 0)
    /\ UNCHANGED <<NotList, fault>>

\* utils-list.c:103-127 with a compare that returns 0 on equal data; the
\* store of noia_chain_disjoin through a freed link is undefined
list_remove(data) ==
    /\ fault = "none"
    /\ LET l == FindLink(chain, chain.first, data)
       IN IF l = NULL
          THEN UNCHANGED <<chain, fault>>
          ELSE IF DisjoinTouchesFreedLink(chain, l)
          THEN /\ fault' = "freed_link"
               /\ chain' = chain
          ELSE /\ chain' = noia_link_free(noia_chain_disjoin(chain, l), l)
               /\ fault' = fault
    /\ sent' = <<>>
    /\ hist' = Recorded(hist, <<>>, "list_remove", data, 0)
    /\ UNCHANGED NotList

NextList ==
    \/ \E data \in ListData : list_append(data)
    \/ \E data \in ListData : list_prepend_link(data)
    \/ list_pop
    \/ \E data \in ListData : list_remove(data)

SpecList == Init /\ [][NextList]_vars

-----------------------------------------------------------------------------
(* SpecSelection: the frontend thread binding keyboards and setting the      *)
(* selection while a coordinator thread moves the keyboard focus and         *)
(* reports keys                                                              *)

KeyboardOps == {"add_surface", "add_keyboard_resource"}


NotSelection == <<surfaces, regions, general_resource, keyboard_focused_sid,
                  pointer_focused_sid, live, fault, coord, hist>>

NotClipboard == <<surfaces, regions, general_resource, keyboard_focused_sid,
                  pointer_focused_sid, live, fault, coord>>

\* wayland-protocol-data-source.c:65-80, wayland-facade.c:292-296,
\* wayland-transfer.c:20-26: a client creates a wl_data_source
noia_wayland_data_source_bind(transfer) ==
    /\ fault = "none"
    /\ pc["fe"] = "idle"
    /\ transfer \notin DOMAIN transfers
    /\ transfers' = noia_store_add(transfers, transfer, [mime_types |-> <<>>])
    /\ hist' = [hist EXCEPT !.offers[transfer] = <<>>]
    /\ sent' = <<>>
    /\ UNCHANGED <<chain, engine, NotClipboard, mutex, current_transfer, pc, loc>>

\* wayland-protocol-data-source.c:25-32, wayland-facade.c:307-311,
\* wayland-transfer.c:40-46
noia_wayland_data_source_offer(transfer, type) ==
    /\ fault = "none"
    /\ pc["fe"] = "idle"
    /\ transfer \in DOMAIN transfers
    /\ transfers' = [transfers EXCEPT ![transfer].mime_types =
                                         noia_list_append(@, type)]
    /\ hist' = [hist EXCEPT !.offers[transfer] = Append(@, type)]
    /\ sent' = <<>>
    /\ UNCHANGED <<chain, engine, NotClipboard, mutex, current_transfer, pc, loc>>

\* wayland-protocol-data-device.c:38-52: wl_data_device.set_selection with a
\* wl_data_source, up to the call of noia_wayland_facade_send_selection
set_selection_request(transfer) ==
    /\ fault = "none"
    /\ pc["fe"] = "idle"
    /\ live \cap DataDeviceRcs # {}    \* the wl_data_device the request is made on
    /\ transfer \in DOMAIN transfers
    /\ pc' = [pc EXCEPT !["fe"] = "ss_write"]
    /\ loc' = [loc EXCEPT !["fe"] = [NoLocals EXCEPT !.op = "send_selection",
                                                     !.rc = transfer]]
    /\ sent' = <<>>
    /\ UNCHANGED <<chain, engine, NotSelection, mutex, current_transfer, transfers>>

\* wayland-facade.c:317: C->state->current_transfer = transfer
noia_wayland_facade_send_selection ==
    /\ fault = "none"
    /\ pc["fe"] = "ss_write"
    /\ current_transfer' = loc["fe"].rc
    /\ pc' = [pc EXCEPT !["fe"] = "ss_lock"]
    /\ sent' = <<>>
    /\ UNCHANGED <<chain, engine, NotSelection, mutex, transfers, loc>>

\* wayland-gateway.c:54, 178: the lock of send_selection called by the
\* Facade, and the lock of gateway_key
selection_lock(t) ==
    /\ fault = "none"
    /\ pc[t] \in {"ss_lock", "key_lock"}
    /\ mutex = NoThread
    /\ mutex' = noia_wayland_cache_lock(t)
    /\ pc' = [pc EXCEPT ![t] = IF pc[t] = "ss_lock" THEN "ss_cs" ELSE "key_cs"]
    /\ sent' = <<>>
    /\ UNCHANGED <<chain, engine, NotSelection, current_transfer, transfers, loc>>

\* wayland-gateway.c:56-90, called by noia_wayland_facade_send_selection
facade_send_selection_section ==
    /\ fault = "none"
    /\ pc["fe"] = "ss_cs"
    /\ sent' = SendSelectionEvents(surfaces, general_resource,
                                   keyboard_focused_sid, current_transfer,
                                   transfers)
    /\ live' = live \cup SendSelectionOffers(surfaces, general_resource,
                                             keyboard_focused_sid,
                                             current_transfer, transfers)
    /\ mutex' = noia_wayland_cache_unlock("fe")
    /\ pc' = [pc EXCEPT !["fe"] = "idle"]
    /\ loc' = [loc EXCEPT !["fe"] = NoLocals]
    /\ UNCHANGED <<chain, engine, surfaces, regions, general_resource, keyboard_focused_sid,
                   pointer_focused_sid, fault, coord, hist, current_transfer,
                   transfers>>

\* wayland-gateway.c:155-169: the Coordinator reports a key
noia_wayland_gateway_key(t) ==
    /\ fault = "none"
    /\ pc[t] = "idle"
    /\ pc' = [pc EXCEPT ![t] = "key_check"]
    /\ loc' = [loc EXCEPT ![t] = [NoLocals EXCEPT !.op = "key"]]
    /\ sent' = <<>>
    /\ UNCHANGED <<chain, engine, NotSelection, mutex, current_transfer, transfers>>

\* wayland-gateway.c:172-174: is there someone to be notified
gateway_key_check(t) ==
    /\ fault = "none"
    /\ pc[t] = "key_check"
    /\ pc' = [pc EXCEPT ![t] = IF keyboard_focused_sid = scInvalidItemId
                               THEN "idle" ELSE "key_lock"]
    /\ loc' = [loc EXCEPT ![t] = IF keyboard_focused_sid = scInvalidItemId
                                 THEN NoLocals ELSE @]
    /\ sent' = <<>>
    /\ UNCHANGED <<chain, engine, NotSelection, mutex, current_transfer, transfers>>

\* wayland-gateway.c:180-210, with the key and the modifiers of lines 163-168
gateway_key_section(t, key, old_mods, new_mods) ==
    /\ fault = "none"
    /\ pc[t] = "key_cs"
    /\ sent' = GatewayKeyEvents(surfaces, general_resource,
                                keyboard_focused_sid, key, old_mods, new_mods)
    /\ mutex' = noia_wayland_cache_unlock(t)
    /\ pc' = [pc EXCEPT ![t] = "idle"]
    /\ loc' = [loc EXCEPT ![t] = NoLocals]
    /\ UNCHANGED <<chain, engine, NotSelection, current_transfer, transfers>>

NextSelection ==
    \/ \E op \in KeyboardOps, sid \in RaceSids,
          rc \in SurfaceRcs \cup {KeyboardRc(c, 1) : c \in RaceClients} :
          frontend_request(op, sid, rc)
    \/ frontend_section
    \/ \E new_sid \in RaceSids \cup {scInvalidSurfaceId} :
          keyboard_focus_update_lock("g1", new_sid)
    \/ keyboard_focus_update_section("g1")
    \/ keyboard_focus_update_relock("g1")
    \/ send_selection_section("g1")
    \/ surface_reconfigured_section("g1")
    \/ \E transfer \in TransferIds : noia_wayland_data_source_bind(transfer)
    \/ \E transfer \in TransferIds, type \in MimeTypes :
          /\ Len(hist.offers[transfer]) < MaxMimeTypes
          /\ noia_wayland_data_source_offer(transfer, type)
    \/ \E rc \in {DataDeviceRc(c) : c \in RaceClients} :
          /\ pc["fe"] = "idle"
          /\ mutex = NoThread
          /\ noia_wayland_data_device_bind(rc)
    \/ \E transfer \in TransferIds : set_selection_request(transfer)
    \/ noia_wayland_facade_send_selection
    \/ \E t \in {"fe", "g2"} : selection_lock(t)
    \/ facade_send_selection_section
    \/ noia_wayland_gateway_key("g2")
    \/ gateway_key_check("g2")
    \/ \E key \in Keys, old_mods \in KeyMods, new_mods \in KeyMods :
          gateway_key_section("g2", key, old_mods, new_mods)

SpecSelection == Init /\ [][NextSelection]_vars

-----------------------------------------------------------------------------
(* SpecShell: two clients with their surfaces, xdg surfaces, keyboards, data *)
(* devices and a selection, and the keyboard focus moving between the        *)
(* surfaces; every call runs from entry to return                            *)

\* wayland-protocol-data-device.c:38-52, wayland-facade.c:315-319,
\* wayland-gateway.c:51-91: wl_data_device.set_selection with a wl_data_source
noia_wayland_data_device_set_selection(transfer) ==
    /\ fault = "none"
    /\ pc["fe"] = "idle"
    /\ live \cap DataDeviceRcs # {}    \* the wl_data_device the request is made on
    /\ transfer \in DOMAIN transfers
    /\ current_transfer' = transfer
    /\ sent' \in SendSelectionOutcomes(surfaces, general_resource,
                                        keyboard_focused_sid, transfer,
                                        transfers, live)
    /\ fault' = SendSelectionFault(surfaces, general_resource,
                                   keyboard_focused_sid, transfer, transfers,
                                   live)
    /\ live' = live \cup SendSelectionOffers(surfaces, general_resource,
                                             keyboard_focused_sid, transfer,
                                             transfers)
    /\ hist' = Recorded(hist, sent', "send_selection", 0, 0)
    /\ UNCHANGED <<chain, engine, surfaces, regions, general_resource, keyboard_focused_sid,
                   pointer_focused_sid, coord, mutex, transfers, pc, loc>>

\* wayland-protocol-data-source.c:15-20,37-42, wayland-facade.c:300-303,
\* wayland-transfer.c:30-36: the wl_data_source is destroyed and its transfer
\* freed; state->current_transfer is not touched
noia_wayland_data_source_unbind(transfer) ==
    /\ fault = "none"
    /\ pc["fe"] = "idle"
    /\ transfer \in DOMAIN transfers
    /\ transfers' = noia_store_delete(transfers, transfer)
    /\ sent' = <<>>
    /\ hist' = Recorded(hist, <<>>, "destroy_transfer", 0, 0)
    /\ UNCHANGED <<chain, engine, NotClipboard, mutex, current_transfer, pc, loc>>

NextShell ==
    \/ \E c \in Clients, sid \in Sids : noia_wayland_create_surface(c, sid)
    \/ \E rc \in KeyboardRcs : noia_wayland_keyboard_bind(rc)
    \/ \E sid \in Sids : noia_wayland_xdg_surface_bind(XdgSurfaceRc(sid, 1))
    \/ \E rc \in DataDeviceRcs : noia_wayland_data_device_bind(rc)
    \/ \E transfer \in TransferIds : noia_wayland_data_source_bind(transfer)
    \/ \E transfer \in TransferIds, type \in MimeTypes :
          /\ Len(hist.offers[transfer]) < MaxMimeTypes
          /\ noia_wayland_data_source_offer(transfer, type)
    \/ \E transfer \in TransferIds :
          noia_wayland_data_device_set_selection(transfer)
    \/ \E new_sid \in Sids \cup {scInvalidSurfaceId} :
          noia_wayland_gateway_keyboard_focus_update(coord.kfocus, OneSize, {},
                                                     new_sid)

SpecShell == Init /\ [][NextShell]_vars

-----------------------------------------------------------------------------
(* SpecClipboard: the surfaces and data devices of two clients, one data     *)
(* source that offers up to MaxOffers types, is set as the selection and is  *)
(* destroyed, and the keyboard focus moving between the surfaces             *)

NextClipboard ==
    \/ \E c \in Clients, sid \in Sids : noia_wayland_create_surface(c, sid)
    \/ \E rc \in DataDeviceRcs : noia_wayland_data_device_bind(rc)
    \/ \E rc \in DataDeviceRcs : noia_wayland_data_device_unbind(rc)
    \/ \E transfer \in TransferIds : noia_wayland_data_source_bind(transfer)
    \/ \E transfer \in TransferIds, type \in ClipboardMimeTypes :
          /\ Len(hist.offers[transfer]) < MaxOffers
          /\ noia_wayland_data_source_offer(transfer, type)
    \/ \E transfer \in TransferIds : noia_wayland_data_source_unbind(transfer)
    \/ \E transfer \in TransferIds :
          noia_wayland_data_device_set_selection(transfer)
    \/ \E new_sid \in Sids \cup {scInvalidSurfaceId} :
          noia_wayland_gateway_keyboard_focus_update(coord.kfocus, OneSize, {},
                                                     new_sid)

SpecClipboard == Init /\ [][NextClipboard]_vars

-----------------------------------------------------------------------------
(* Properties of SpecFocus                                                   *)

\* C3: find_surface(s) returns a record if and only if add_surface(s) has
\* occurred and remove_surface(s) has not occurred since.
FindSurfaceIffCreatedNotRemoved ==
    \A s \in Sids :
        noia_wayland_cache_find_surface(surfaces, s) <=> s \in hist.live_sids

\* a surface has just been removed while another one is still in the cache
SurfaceRemovedOtherKept ==
    /\ hist.call.op = "remove_surface"
    /\ ~ noia_wayland_cache_find_surface(surfaces, hist.call.new)
    /\ \E s \in Sids : noia_wayland_cache_find_surface(surfaces, s)

RECURSIVE FocusAlternates(_, _, _, _, _)
\* the enter and leave events `events` sends to rc continue, after prev,
\* the alternation enter, leave, enter, ...
FocusAlternates(events, rc, enter, leave, prev) ==
    IF events = <<>> THEN TRUE
    ELSE LET e == Head(events)
         IN IF e.to = rc /\ e.ev \in {enter, leave}
            THEN /\ e.ev = enter => prev # enter
                 /\ e.ev = leave => prev = enter
                 /\ FocusAlternates(Tail(events), rc, enter, leave, e.ev)
            ELSE FocusAlternates(Tail(events), rc, enter, leave, prev)

\* C4: the focus events sent to any one keyboard resource alternate enter,
\* leave, enter, ...: no enter while an earlier enter is unmatched, no leave
\* without a preceding unmatched enter.
KeyboardFocusAlternates ==
    [][\A rc \in KeyboardRcs :
          FocusAlternates(sent', rc, "keyboard.enter", "keyboard.leave",
                          hist.kb_last[rc])]_vars

RECURSIVE EventsToClient(_, _, _)
\* the events of `names` that `events` sends to resources of client c
EventsToClient(events, c, names) ==
    IF events = <<>> THEN <<>>
    ELSE (IF wl_resource_get_client(Head(events).to) = c
             /\ Head(events).ev \in names
          THEN <<[ev |-> Head(events).ev, arg |-> Head(events).arg]>>
          ELSE <<>>)
         \o EventsToClient(Tail(events), c, names)

ClientKeyboards(c) ==
    {rc \in KeyboardRcs : InList(general_resource["KEYBOARD"], rc)
                          /\ wl_resource_get_client(rc) = c}

\* C5: for two consecutive keyboard_focus_update calls A -> B -> C, the
\* keyboard events sent to the client hosting B (which has one wl_keyboard
\* bound) are exactly one enter(B_rc) followed by exactly one leave(B_rc).
FocusPairEnterThenLeave ==
    (/\ Len(hist.kfu) = 2
     /\ hist.kfu[1].new = hist.kfu[2].old
     /\ noia_wayland_cache_get_rc_for_sid(surfaces, hist.kfu[1].new).cl # NULL)
    => LET B == noia_wayland_cache_get_rc_for_sid(surfaces, hist.kfu[1].new)
       IN Cardinality(ClientKeyboards(B.cl)) = 1
          => EventsToClient(hist.kfu[1].sent \o hist.kfu[2].sent, B.cl,
                            KeyboardFocusNames)
             = <<[ev |-> "keyboard.enter", arg |-> B.rc],
                 [ev |-> "keyboard.leave", arg |-> B.rc]>>

\* C6: the focus events sent to any one pointer resource alternate enter,
\* leave, enter, ..., also when the pointer-focused surface was removed
\* before the next pointer_focus_update.
PointerFocusAlternates ==
    [][\A rc \in PointerRcs :
          FocusAlternates(sent', rc, "pointer.enter", "pointer.leave",
                          hist.ptr_last[rc])]_vars

\* C7: when keyboard_focus_update(old_sid, ..., new_sid, ...) has returned,
\* keyboard_focused_sid equals new_sid.
KeyboardFocusedSidIsNew ==
    hist.call.op = "keyboard_focus_update"
    => keyboard_focused_sid = hist.call.new

\* C24: every wl_keyboard bind sends keymap(format, fd, size), with the
\* keymap settings of the frontend, to the keyboard resource it creates.
KeyboardBindSendsKeymap ==
    [][\A rc \in KeyboardRcs :
         (/\ hist'.call.op = "add_keyboard_resource"
          /\ noia_wayland_keyboard_bind(rc))
         => \E i \in 1..Len(sent') :
              sent'[i] = Ev("keyboard.keymap", rc,
                            <<noia_wayland_facade_get_keymap_settings.format,
                              noia_wayland_facade_get_keymap_settings.fd,
                              noia_wayland_facade_get_keymap_settings.size>>, 0)
      ]_vars

-----------------------------------------------------------------------------
(* Properties of Spec                                                        *)

\* C1: no thread tries to acquire the cache mutex while it holds it, every
\* operation returns with the mutex released, the owner of the mutex is always
\* inside a critical section it can finish, and so a thread waiting for the
\* mutex is never waiting for itself or for a thread that cannot release it.
LockProtocol ==
    /\ \A t \in Threads :
          /\ pc[t] \in AcquirePcs \cup {"idle"} => mutex # t
          /\ mutex = t => pc[t] \in SectionPcs
    /\ mutex \in Threads \cup {NoThread}
    /\ (fault = "none" /\ \E t \in Threads : pc[t] \in AcquirePcs)
       => \/ mutex = NoThread
          \/ pc[mutex] \in SectionPcs

\* a screen_refresh re-entered the Facade to unbind a frame callback and holds
\* the mutex while keyboard_focus_update waits for it before send_selection
UnbindHoldsWhileFocusWaits ==
    /\ fault = "none"
    /\ \E t, u \in GatewayThreads :
          /\ pc[t] = "sr_unbind_cs"
          /\ mutex = t
          /\ pc[u] = "kfu_sel_lock"

\* C2: a thread that is about to read, iterate or mutate Cache state holds
\* the cache mutex; in particular screen_refresh pops the frame queue only
\* while holding it.
CacheAccessUnderMutex ==
    \A t \in Threads : pc[t] \in SectionPcs \cup NotifyPcs => mutex = t

\* C8: every registered frame callback receives callback.done at most once,
\* and one that has received it is being destroyed by the screen_refresh that
\* sent it.
FrameDoneAtMostOnce ==
    \A rc \in FrameRcs :
        /\ hist.done[rc] <= 1
        /\ (fault = "none" /\ hist.done[rc] = 1 /\ rc \in live)
           => \E t \in GatewayThreads :
                 loc[t].rc = rc /\ pc[t] \in {"sr_destroy", "sr_unbind_cs"}

\* C9: the critical section of screen_refresh(sid) enqueues exactly one
\* wl_buffer.release on the attached buffer and clears the buffer slot when
\* the surface has a frame callback outstanding and a buffer slot set;
\* otherwise it enqueues nothing and leaves the buffer slot as it is.
ScreenRefreshReleasesBuffer ==
    [][\A t \in GatewayThreads :
          (/\ pc[t] = "sr_cs"
           /\ pc'[t] = "sr_loop"
           /\ noia_wayland_cache_find_surface(surfaces, loc[t].sid))
          => LET before == surfaces[loc[t].sid]
                 after == surfaces'[loc[t].sid]
             IN IF /\ Len(before.frame_resources) >= 1
                   /\ before.resources["BUFFER"] # NULL
                THEN /\ sent' = <<Ev("buffer.release",
                                     before.resources["BUFFER"], NULL, 0)>>
                     /\ after.resources["BUFFER"] = NULL
                ELSE /\ sent' = <<>>
                     /\ after.resources["BUFFER"] = before.resources["BUFFER"]
      ]_vars

\* a screen_refresh has just released the attached buffer and cleared the slot
BufferJustReleased ==
    /\ Len(sent) = 1
    /\ sent[1].ev = "buffer.release"
    /\ \E t \in GatewayThreads :
          /\ pc[t] = "sr_loop"
          /\ surfaces[loc[t].sid].resources["BUFFER"] = NULL
          /\ surfaces[loc[t].sid].frame_resources # <<>>

(* Properties of SpecResources *)

\* C15: for every general resource kind (keyboard, pointer, data_device,
\* other), a resource that a bind put into the general-resource list is
\* removed from the list when its unbind callback runs, so every list entry
\* is a resource that still exists, and once every bound resource has been
\* destroyed all the general-resource lists are empty.
GeneralResourceRemovedByUnbind ==
    \A type \in GeneralResourceTypes :
        \A i \in 1..Len(general_resource[type]) :
            general_resource[type][i] \in live

\* C16: on a live surface record the slot of a non-frame kind holds the most
\* recently added resource of that kind whose own removal has not occurred:
\* adding to an occupied slot replaces its content, and removing some other
\* resource of the same kind does not clear the slot.
SlotHoldsLastAddedResource ==
    [][\A rc \in XdgSurfaceRcs :
          LET sid == wl_resource_get_user_data(rc)
              slot(s) == noia_wayland_surface_get_resource(
                             s[sid], "XDG_SHELL_SURFACE")
          IN /\ noia_wayland_xdg_surface_bind(rc) => slot(surfaces') = rc
             /\ (/\ noia_wayland_xdg_surface_unbind(rc)
                 /\ noia_wayland_cache_find_surface(surfaces, sid)
                 /\ slot(surfaces) # rc)
                => slot(surfaces') = slot(surfaces)
      ]_vars

(* Properties of SpecSelection *)

\* C17: no Facade operation sends a protocol event while it holds the cache
\* mutex, add_keyboard_resource included: a step the frontend thread takes
\* with the mutex held sends nothing.
FacadeSendsOutsideLock ==
    [][(mutex = "fe" /\ pc'["fe"] # pc["fe"]) => sent' = <<>>]_vars

\* the positions at which the next statement of the thread reads or writes
\* keyboard_focused_sid, pointer_focused_sid or current_transfer
StateAccessPcs == {"fe_cs", "ss_write", "ss_cs", "key_check", "key_cs",
                   "kfu_cs", "kfu_sel_cs", "kfu_rc1_cs", "kfu_rc2_cs"}

\* C18: keyboard_focused_sid, pointer_focused_sid and current_transfer are
\* read and written only by a thread that holds the cache mutex; the Facade's
\* send_selection writes current_transfer under the lock and the Gateway's
\* key handler reads keyboard_focused_sid under the lock.
StateAccessUnderMutex ==
    \A t \in Threads : pc[t] \in StateAccessPcs => mutex = t

(* Properties of SpecShell *)

\* the keyboard resources of client c, in the order they were bound
KeyboardsOf(c) ==
    SelectSeq(general_resource["KEYBOARD"],
              LAMBDA rc : wl_resource_get_client(rc) = c)

\* the xdg_surface resource of a surface that has one and no wl_shell_surface
XdgOf(sid) ==
    IF /\ noia_wayland_cache_find_surface(surfaces, sid)
       /\ surfaces[sid].resources["SHELL_SURFACE"] = NULL
    THEN surfaces[sid].resources["XDG_SHELL_SURFACE"]
    ELSE NULL

\* a keyboard_focus_update step from surface sa to surface sb
FocusMoves(sa, sb) ==
    /\ sa # sb
    /\ coord.kfocus = sa
    /\ noia_wayland_gateway_keyboard_focus_update(sa, OneSize, {}, sb)

\* C19: when the keyboard focus moves from surface sa of client A to surface
\* sb of a different client B, each client having one bound wl_keyboard, the
\* events are sent in this order, whatever order the keyboards were bound in:
\* keyboard.leave(0, sa_rc) to A, keyboard.enter(0, sb_rc) to B, then, if
\* there is a current transfer, the selection offer sequence to B, and last
\* an xdg_surface.configure to sb whose states include activated.
FocusMoveEventOrder ==
    [][\A sa \in Sids, sb \in Sids :
          LET A == noia_wayland_cache_get_rc_for_sid(surfaces, sa)
              B == noia_wayland_cache_get_rc_for_sid(surfaces, sb)
              others == SelectSeq(sent', LAMBDA e : e.to # XdgOf(sa))
              n == Len(others)
          IN (/\ FocusMoves(sa, sb)
              /\ A.cl # NULL /\ B.cl # NULL /\ A.cl # B.cl
              /\ Len(KeyboardsOf(A.cl)) = 1 /\ Len(KeyboardsOf(B.cl)) = 1
              /\ XdgOf(sb) # NULL)
             => /\ n >= 3
                /\ SubSeq(others, 1, n - 1) =
                       <<Ev("keyboard.leave", KeyboardsOf(A.cl)[1], A.rc, 0),
                         Ev("keyboard.enter", KeyboardsOf(B.cl)[1], B.rc, 0)>>
                       \o SendSelectionEvents(surfaces, general_resource, sb,
                                              current_transfer, transfers)
                /\ others[n].ev = "xdg_surface.configure"
                /\ others[n].to = XdgOf(sb)
                /\ \E k \in 1..Len(others[n].arg[3]) :
                      others[n].arg[3][k] = "activated"
      ]_vars

\* the xdg_surface.configure events of `events` to the xdg_surface of sid
ConfiguresTo(events, sid) ==
    SelectSeq(events, LAMBDA e : e.ev = "xdg_surface.configure"
                                  /\ e.to = XdgOf(sid))

\* C20: after keyboard_focus_update(old_sid, new_sid) with two distinct xdg
\* surfaces, the configure sent to new_sid carries the activated state and
\* the configure sent to old_sid does not, for every pair of surfaces,
\* two surfaces of the same client included.
FocusMoveFlipsActivated ==
    [][\A old_sid \in Sids, new_sid \in Sids :
          (/\ FocusMoves(old_sid, new_sid)
           /\ XdgOf(old_sid) # NULL
           /\ XdgOf(new_sid) # NULL)
          => /\ Len(ConfiguresTo(sent', new_sid)) = 1
             /\ Len(ConfiguresTo(sent', old_sid)) = 1
             /\ "activated" \in
                    {ConfiguresTo(sent', new_sid)[1].arg[3][k] :
                       k \in 1..Len(ConfiguresTo(sent', new_sid)[1].arg[3])}
             /\ "activated" \notin
                    {ConfiguresTo(sent', old_sid)[1].arg[3][k] :
                       k \in 1..Len(ConfiguresTo(sent', old_sid)[1].arg[3])}
      ]_vars

-----------------------------------------------------------------------------
(* Properties of SpecClipboard                                               *)

SelectionNames == {"data_device.data_offer", "data_offer.offer",
                   "data_offer.action", "data_device.selection"}

RECURSIVE SelectionTo(_, _)
\* the selection events of `events` sent on a data device or on its data offer
SelectionTo(events, dev) ==
    IF events = <<>> THEN <<>>
    ELSE (IF /\ Head(events).ev \in SelectionNames
             /\ Head(events).to \in {dev, DataOfferRc(dev)}
          THEN <<Head(events)>> ELSE <<>>)
         \o SelectionTo(Tail(events), dev)

\* data_offer(O), offer(type) per offered type, action(copy), selection(O)
ExpectedSelection(dev, types) ==
    [i \in 1..(Len(types) + 3) |->
       IF i = 1 THEN Ev("data_device.data_offer", dev, DataOfferRc(dev), 0)
       ELSE IF i <= Len(types) + 1
       THEN Ev("data_offer.offer", DataOfferRc(dev), types[i - 1], 0)
       ELSE IF i = Len(types) + 2
       THEN Ev("data_offer.action", DataOfferRc(dev), "copy", 0)
       ELSE Ev("data_device.selection", dev, DataOfferRc(dev), 0)]

\* every data device gets what the claim says of a send_selection that ran
\* with the current transfer `transfer` in the step just taken
SelectionSentFor(transfer) ==
    /\ fault' = "none"
    /\ \A dev \in DataDeviceRcs :
         SelectionTo(sent', dev) =
           IF /\ transfer # NULL
              /\ dev \in live
              /\ wl_resource_get_client(dev) =
                   noia_wayland_cache_get_rc_for_sid(
                       surfaces, keyboard_focused_sid').cl
           THEN ExpectedSelection(dev, hist.offers[transfer])
           ELSE <<>>

\* C21: send_selection, called by wl_data_device.set_selection and by a
\* keyboard focus move between clients, sends nothing when there is no
\* current transfer; otherwise every data device of the keyboard-focused
\* client, and no other, receives data_offer(O), one offer per MIME type in
\* the order the source offered them, action(copy) and selection(O).
SendSelectionPerDevice ==
    [][/\ \A transfer \in TransferIds :
            noia_wayland_data_device_set_selection(transfer)
            => SelectionSentFor(transfer)
       /\ \A new_sid \in Sids \cup {scInvalidSurfaceId} :
            (/\ noia_wayland_gateway_keyboard_focus_update(
                    coord.kfocus, OneSize, {}, new_sid)
             /\ KeyboardFocusClientsDiffer(surfaces, coord.kfocus, new_sid))
            => SelectionSentFor(current_transfer)
      ]_vars

-----------------------------------------------------------------------------
(* Properties of SpecKeys                                                    *)

RECURSIVE EventsTo(_, _)
\* the events of `events` sent on the resource rc
EventsTo(events, rc) ==
    IF events = <<>> THEN <<>>
    ELSE (IF Head(events).to = rc THEN <<Head(events)>> ELSE <<>>)
         \o EventsTo(Tail(events), rc)

\* C22: a key(time, code, state) call sends, to every keyboard resource of the
\* client of the surface keyboard_focused_sid names and to no other resource,
\* key(serial, time, code, state), followed by modifiers with the same serial
\* and the modifiers after the key if and only if these differ from the ones
\* before it; with no focused surface it sends nothing.
KeySentToFocusedKeyboards ==
    hist.call.op = "key"
    => LET focused == noia_wayland_cache_get_rc_for_sid(
                          surfaces, keyboard_focused_sid)
           key == hist.call.new.key
           old_mods == hist.call.old
           new_mods == hist.call.new.mods
       IN /\ \A i \in 1..Len(sent) :
               /\ sent[i].to \in live \cap SeatKeyboardRcs
               /\ sent[i].serial = sent[1].serial
          /\ \A rc \in live \cap SeatKeyboardRcs :
               EventsTo(sent, rc) =
                 IF /\ keyboard_focused_sid # scInvalidSurfaceId
                    /\ focused.cl # NULL
                    /\ wl_resource_get_client(rc) = focused.cl
                 THEN <<Ev("keyboard.key", rc,
                           <<key.time, key.code, key.state>>, 1)>>
                      \o (IF new_mods # old_mods
                          THEN <<Ev("keyboard.modifiers", rc,
                                    <<new_mods.depressed, new_mods.latched,
                                      new_mods.locked, new_mods.effective>>,
                                    1)>>
                          ELSE <<>>)
                 ELSE <<>>

\* a key that changed the locked modifiers only went to both keyboards of the
\* focused client while the other client has a keyboard too
KeyWithModifiersSent ==
    /\ hist.call.op = "key"
    /\ KeysKeyboardRcs \subseteq live
    /\ Len(sent) = 4
    /\ sent[2].ev = "keyboard.modifiers"
    /\ sent[2].arg = <<0, 0, 1, 0>>
    /\ sent[1].to # sent[3].to

\* C30: add_keyboard_resource(rc) appends rc to the keyboard list and sends
\* keyboard.enter(serial, focused_rc, []) to rc exactly when the client of rc
\* owns the surface keyboard_focused_sid names; nothing else is sent.
AddKeyboardResourceEntersFocused ==
    [][\A rc \in SeatKeyboardRcs :
         (/\ hist'.call.op = "add_keyboard_resource"
          /\ noia_wayland_keyboard_bind(rc))
         => /\ general_resource'["KEYBOARD"] =
                 Append(general_resource["KEYBOARD"], rc)
            /\ IF /\ keyboard_focused_sid \in DOMAIN surfaces
                  /\ surfaces[keyboard_focused_sid].resources["SURFACE"] % 10
                       = rc % 10
               THEN sent' = <<[ev |-> "keyboard.enter", to |-> rc,
                               arg |-> surfaces[keyboard_focused_sid]
                                          .resources["SURFACE"],
                               serial |-> 1]>>
               ELSE sent' = <<>>
      ]_vars

\* a second keyboard is bound and entered while the other client's keyboard
\* is in the list
SecondKeyboardEntered ==
    /\ hist.call.op = "add_keyboard_resource"
    /\ Len(general_resource["KEYBOARD"]) = 2
    /\ Len(sent) = 1
    /\ sent[1].ev = "keyboard.enter"
    /\ sent[1].to = general_resource["KEYBOARD"][2]
    /\ general_resource["KEYBOARD"][1] % 10 # sent[1].to % 10

-----------------------------------------------------------------------------
(* Properties of SpecPointer                                                 *)

\* C23: pointer_motion(sid, pos, ms) sends motion only to pointer resources of
\* the client whose surface sid is the pointer-focused surface, and sends no
\* motion when sid differs from pointer_focused_sid.
MotionOnlyForFocusedSid ==
    hist.call.op = "pointer_motion"
    => /\ hist.call.new # pointer_focused_sid => sent = <<>>
       /\ \A i \in 1..Len(sent) :
            /\ sent[i].ev = "pointer.motion"
            /\ sent[i].to \in PointerRcs
            /\ wl_resource_get_client(sent[i].to) =
                 noia_wayland_cache_get_rc_for_sid(
                     surfaces, pointer_focused_sid).cl

-----------------------------------------------------------------------------
(* Properties of SpecSurface                                                 *)

SurfaceCallNames == {"surface_attach", "surface_commit"}

\* C25: every wl_surface.attach makes exactly one surface_attach call on the
\* Coordinator and every wl_surface.commit exactly one surface_commit call,
\* for the sid of the surface and within the request itself; no other request
\* makes such a call.
AttachCommitForwardedOnce ==
    [][/\ \A resource \in SurfaceRcs, buffer_resource \in BufferRcs \cup {NULL} :
            (/\ hist'.call.op = "surface_attach"
             /\ noia_wayland_surface_attach(resource, buffer_resource))
            => coord'.calls =
                 <<[call |-> "surface_attach",
                    sid |-> wl_resource_get_user_data(resource),
                    a |-> buffer_resource, b |-> resource]>>
       /\ \A resource \in SurfaceRcs :
            (/\ hist'.call.op = "surface_commit"
             /\ noia_wayland_surface_commit(resource))
            => coord'.calls =
                 <<[call |-> "surface_commit",
                    sid |-> wl_resource_get_user_data(resource),
                    a |-> 0, b |-> 0]>>
       /\ hist'.call.op \notin SurfaceCallNames
          => \A i \in 1..Len(coord'.calls) :
               coord'.calls[i].call \notin SurfaceCallNames
      ]_vars

\* surface 2 was committed after a buffer had been attached to it
AttachedSurfaceCommitted ==
    /\ hist.call.op = "surface_commit"
    /\ hist.call.new = 2
    /\ Len(coord.calls) = 1
    /\ noia_wayland_cache_find_surface(surfaces, 2)
    /\ surfaces[2].resources["BUFFER"] # NULL

-----------------------------------------------------------------------------
(* Properties of SpecScene                                                   *)

RECURSIVE PlacedBy(_, _, _, _)
\* `children` without sid, with sid put back right after (above) or right
\* before the sibling
PlacedBy(children, sid, sibling_sid, above) ==
    IF children = <<>> THEN <<>>
    ELSE IF Head(children) = sid
         THEN PlacedBy(Tail(children), sid, sibling_sid, above)
    ELSE IF Head(children) = sibling_sid
         THEN (IF above THEN <<sibling_sid, sid>> ELSE <<sid, sibling_sid>>)
              \o PlacedBy(Tail(children), sid, sibling_sid, above)
    ELSE <<Head(children)>> \o PlacedBy(Tail(children), sid, sibling_sid, above)

InSeq(seq, x) == \E i \in 1..Len(seq) : seq[i] = x

\* C26: place_above(s, sibling) leaves s right after sibling in the ordered
\* children of their parent and place_below(s, sibling) right before it, the
\* other children keeping their relative order; from [c1, c2, c3],
\* place_above(c1, c3) gives [c2, c3, c1].
PlaceAboveBelowReorders ==
    [][hist'.call.op \in {"place_above", "place_below"}
       => LET sid == hist'.call.new
              sibling_sid == hist'.call.old
              children == Satellites(coord.satellites, ParentSid)
          IN (sid # sibling_sid /\ InSeq(children, sid)
                                /\ InSeq(children, sibling_sid))
             => Satellites(coord'.satellites, ParentSid) =
                  PlacedBy(children, sid, sibling_sid,
                           hist'.call.op = "place_above")
      ]_vars

-----------------------------------------------------------------------------
(* Properties of SpecEngine                                                  *)

\* C27: stop() asks the display to terminate and returns only after the
\* frontend thread has ended, leaving the engine not running; stop() on an
\* engine that is not running (before start, or stopped already) terminates
\* and joins nothing.
StopTerminatesAndJoinsOnce ==
    [][/\ \A finalize \in BOOLEAN :
            noia_wayland_engine_stop_call(finalize)
            => IF engine.running
               THEN /\ engine'.terminates = engine.terminates + 1
                    /\ ~engine'.run
                    /\ engine'.caller # "idle"
               ELSE /\ engine'.terminates = engine.terminates
                    /\ engine'.joins = engine.joins
                    /\ engine'.thread = engine.thread
                    /\ engine'.caller = "idle"
       /\ (engine.caller # "idle" /\ engine'.caller = "idle")
          => /\ engine.thread = "exited"
             /\ engine'.joins = engine.joins + 1
             /\ ~engine'.running
       /\ engine'.terminates <= 1
       /\ engine'.joins <= engine'.terminates
      ]_vars

\* stop was called again on an engine whose thread had been joined
StoppedEngineStoppedAgain ==
    /\ hist.call.op = "engine_stop"
    /\ hist.call.old = 0
    /\ engine.joins = 1
    /\ engine.thread = "joined"
    /\ ~engine.running

\* C28: when the display cannot be created or the wayland-0 socket cannot be
\* added, the initialization returns a failure, the frontend thread is never
\* started and no interface is registered.
FailedInitializeStartsNothing ==
    /\ [][\A display_ok \in BOOLEAN, socket_ok \in BOOLEAN, thread_ok \in BOOLEAN :
            (noia_wayland_initialize(display_ok, socket_ok, thread_ok)
             /\ ~(display_ok /\ socket_ok))
            => /\ noia_wayland_engine_initialize(
                      engine, display_ok, socket_ok).result = "error"
               /\ noia_wayland_context_initialize(
                      engine, display_ok, socket_ok, thread_ok).result = "error"
               /\ noia_wayland_context_initialize(
                      engine, display_ok, socket_ok, thread_ok).thread = "none"
               /\ noia_wayland_context_initialize(
                      engine, display_ok, socket_ok, thread_ok).globals = {}
               /\ engine'.result = "error"
       ]_vars
    /\ []((hist.call.op = "initialize" /\ (hist.call.old = 0 \/ hist.call.new = 0))
          => [](/\ engine.thread = "none"
                /\ engine.globals = {}
                /\ ~engine.running))

\* the display was created, the socket was not: the initialization failed
SocketFailed ==
    /\ hist.call.op = "initialize"
    /\ hist.call.old = 1
    /\ hist.call.new = 0
    /\ engine.result = "error"

-----------------------------------------------------------------------------
(* Further properties of SpecPointer                                         *)

\* the client that owns surface sid in the Cache, NULL when there is none
OwnerOf(sid) ==
    IF sid \in DOMAIN surfaces /\ surfaces[sid].resources["SURFACE"] # NULL
    THEN surfaces[sid].resources["SURFACE"] % 10
    ELSE NULL

\* C31: pointer_focus_update sends neither pointer.leave nor pointer.enter
\* when the surface that had the pointer focus and new_sid belong to the same
\* client, or when neither resolves to a client.
PointerFocusSameClientSilent ==
    (/\ hist.call.op = "pointer_focus_update"
     /\ OwnerOf(hist.call.old) = OwnerOf(hist.call.new))
    => \A i \in 1..Len(sent) : sent[i].ev \notin {"pointer.leave", "pointer.enter"}

-----------------------------------------------------------------------------
(* Properties of SpecConfigure                                               *)

\* the slot of kind `type` of surface sid, NULL without a record
SlotOf(sid, type) ==
    IF sid \in DOMAIN surfaces THEN surfaces[sid].resources[type] ELSE NULL

\* C32: surface_reconfigured sends at most one configure:
\* wl_shell_surface.configure(0, w, h) to the shell_surface slot when there is
\* one; otherwise xdg_surface.configure(w, h, states, fresh serial) to the
\* xdg_shell_surface slot, states holding maximized iff the flags have
\* MAXIMIZED and activated iff sid is keyboard_focused_sid; nothing when the
\* surface has neither slot or no record.
ReconfiguredSendsOneConfigure ==
    hist.call.op = "surface_reconfigured"
    => LET sid == hist.call.new
           shell == SlotOf(sid, "SHELL_SURFACE")
           xdg == SlotOf(sid, "XDG_SHELL_SURFACE")
       IN /\ Len(sent) <= 1
          /\ shell # NULL
             => \E size \in ReconfiguredSizes :
                  sent = <<[ev |-> "shell_surface.configure", to |-> shell,
                            arg |-> <<0, size.width, size.height>>,
                            serial |-> 0]>>
          /\ (shell = NULL /\ xdg # NULL)
             => \E size \in ReconfiguredSizes :
                  sent = <<[ev |-> "xdg_surface.configure", to |-> xdg,
                            arg |-> <<size.width, size.height,
                                      (IF hist.call.old = 1
                                       THEN <<"maximized">> ELSE <<>>)
                                      \o (IF sid = keyboard_focused_sid
                                          THEN <<"activated">> ELSE <<>>)>>,
                            serial |-> 1]>>
          /\ (shell = NULL /\ xdg = NULL) => sent = <<>>

\* a surface with both slots was reconfigured through its wl_shell_surface
BothSlotsShellConfigured ==
    /\ hist.call.op = "surface_reconfigured"
    /\ SlotOf(hist.call.new, "SHELL_SURFACE") # NULL
    /\ SlotOf(hist.call.new, "XDG_SHELL_SURFACE") # NULL
    /\ Len(sent) = 1
    /\ sent[1].ev = "shell_surface.configure"

-----------------------------------------------------------------------------
(* Further properties of SpecSurface                                         *)

-----------------------------------------------------------------------------
(* Further properties of SpecClipboard                                       *)

\* C34: the Gateway sends events only to resources that still exist: what a
\* keyboard focus update sends (the selection to the data devices included)
\* goes to live resources.
GatewaySendsToLiveResources ==
    hist.call.op = "keyboard_focus_update"
    => \A i \in 1..Len(sent) : sent[i].to \in live

\* C35: a transfer is not used after its data source was destroyed: no
\* send_selection reads the MIME list of a transfer that data_source unbind
\* has freed.
TransferNotUsedAfterDestroy ==
    fault # "freed_transfer"

-----------------------------------------------------------------------------
(* Further properties of SpecRegion                                          *)

\* C39: region inflate is idempotent: for every region state and every
\* rectangle with strictly positive position and extents, inflating twice
\* with the rectangle yields the same region as inflating once.
RegionInflateIdempotent ==
    \A rid \in DOMAIN regions :
        \A rect \in Rects :
            (rect.x > 0 /\ rect.y > 0 /\ rect.w > 0 /\ rect.h > 0)
            => LET once == noia_wayland_region_inflate(
                               regions[rid], rect.x, rect.y, rect.w, rect.h)
               IN noia_wayland_region_inflate(
                      once, rect.x, rect.y, rect.w, rect.h) = once

-----------------------------------------------------------------------------
(* Further properties of SpecFocus                                           *)

\* C37: in every state keyboard_focused_sid and pointer_focused_sid are each
\* the invalid id or the id of a surface that has a record in the cache.
FocusNamesCachedSurface ==
    \A focused_sid \in {keyboard_focused_sid, pointer_focused_sid} :
        \/ focused_sid = scInvalidSurfaceId
        \/ noia_wayland_cache_find_surface(surfaces, focused_sid)

-----------------------------------------------------------------------------
(* Further properties of SpecKeys                                            *)

\* C38: a key event is delivered only to a keyboard resource whose last focus
\* event is keyboard.enter, that is one that has received enter and no leave
\* since.
KeyOnlyToEnteredKeyboards ==
    hist.call.op = "key"
    => \A i \in 1..Len(sent) :
          sent[i].ev = "keyboard.key"
          => hist.kb_last[sent[i].to] = "keyboard.enter"

-----------------------------------------------------------------------------
(* Properties of SpecTeardown                                                *)

\* C36: under any interleaving of screen_refresh(sid) on a coordinator thread
\* with remove_surface(sid) on the frontend thread, screen_refresh never
\* reads or pops the frame list of a surface record that remove_surface has
\* freed.
ScreenRefreshNeverReadsFreedSurface ==
    fault # "freed_surface"

-----------------------------------------------------------------------------
(* Properties of SpecList                                                    *)

\* C40: after any sequence of append, prepend, pop and remove the list is a
\* well-formed doubly linked chain: len is the number of links reachable from
\* first, first.prev and last.next are null, neighbouring links agree on
\* next and prev, and no link refers to a freed link.
ListWellFormed ==
    LET links == ChainLinks(chain, chain.first)
    IN /\ chain.len = Len(links)
       /\ chain.first # NULL => chain.link[chain.first].prev = NULL
       /\ chain.last # NULL => chain.link[chain.last].next = NULL
       /\ (chain.first = NULL) <=> (chain.last = NULL)
       /\ links # <<>> => links[Len(links)] = chain.last
       /\ \A i \in 1..Len(links) :
             /\ links[i] \notin chain.freed
             /\ chain.link[links[i]].prev \notin chain.freed
             /\ chain.link[links[i]].next \notin chain.freed
             /\ i < Len(links) => chain.link[links[i + 1]].prev = links[i]

====
